---- MODULE Spec2Model ----
(***************************************************************************)
(* Synchronization and prioritization engine of the student productivity   *)
(* platform: the task store, the per-source connectors, the upsert of      *)
(* IntegrationManager.sync_user_tasks, the summaries of TaskSummarizer and *)
(* the periodic loop of TaskScheduler.                                     *)
(*                                                                         *)
(* Time is counted in hours since an arbitrary origin, in UTC.  An         *)
(* optional value (a nullable column, a key a dict may lack) is the empty  *)
(* sequence when it is None and a one-element sequence otherwise.          *)
(*                                                                         *)
(* The application runs its endpoints and the scheduler on one asyncio     *)
(* event loop: code between two awaits is one atomic step, and the only    *)
(* awaits of the modelled code are the HTTP calls of the connectors and    *)
(* the sleeps of the scheduler.                                            *)
(***************************************************************************)
EXTENDS Integers, Sequences, FiniteSets, Bags, TLC

VARIABLES
    now,            \* the clock, datetime.now(timezone.utc), in hours
    tasks,          \* the rows of table "tasks", in insertion order
    next_task_id,   \* the serial of tasks.id
    oauth_tokens,   \* the rows of table "oauth_tokens"
    syncs,          \* the on-demand sync_user_tasks calls suspended in a fetch
    running,        \* TaskScheduler.running
    loops,          \* the run_periodic_sync coroutines
    last            \* the call that completed most recently, and what it returned

vars == <<now, tasks, next_task_id, oauth_tokens, syncs, running, loops, last>>

-----------------------------------------------------------------------------
(* Bounds of the model *)

\* ticks of the clock
MaxTicks == 1
\* items one upstream response carries
MaxBatch == 2
\* on-demand syncs suspended at the same time
MaxInFlight == 1
\* scheduler coroutines alive at the same time
MaxLoops == 2
\* the serial of tasks.id up to which a sync request is accepted
MaxTaskId == 8
\* manual tasks the users create
MaxManual == 3
\* the task ids the task endpoints are called with
MaxOwned == 3

-----------------------------------------------------------------------------
(* Optional values and dictionaries *)

None == <<>>
Some(v) == <<v>>
Val(o) == o[1]

\* dict.get(key, default)
Get(d, key, default) ==
    IF key \in DOMAIN d THEN d[key] ELSE default

\* dict.get(key), as an optional value
GetOpt(d, key) ==
    IF key \in DOMAIN d THEN Some(d[key]) ELSE None

\* the sequences over S of length at most n
SeqsUpTo(S, n) ==
    UNION { [1..k -> S] : k \in 0..n }

RECURSIVE Concat(_)
\* the concatenation of a sequence of sequences
Concat(ss) ==
    IF ss = <<>> THEN <<>> ELSE Head(ss) \o Concat(Tail(ss))

\* the subsequence of s whose elements satisfy Test
Filter(s, Test(_)) ==
    SelectSeq(s, Test)

-----------------------------------------------------------------------------
(* schema.py: enumerations and the users table *)

PENDING == "pending"
COMPLETE == "complete"
OVERDUE == "overdue"
TaskStatus == {PENDING, COMPLETE, OVERDUE}

CANVAS == "canvas"
OUTLOOK == "outlook"
GOOGLE_CALENDAR == "google_calendar"
HANDSHAKE == "handshake"
MANUAL == "manual"

\* the users table; user creation is outside the modelled core
Users == {1, 2}

\* the order in which sync_user_tasks visits the sources
SyncSources == <<CANVAS, OUTLOOK, GOOGLE_CALENDAR, HANDSHAKE>>

-----------------------------------------------------------------------------
(* What the external services hold.  A timestamp of a raw item is the hour  *)
(* dateutil's parser.parse reads from it.                                    *)

\* Canvas: the courses of a student and the assignments a course may list
CanvasCourse == [id |-> 101, name |-> "CS 101"]

CanvasAssignments ==
    { [id |-> 42, name |-> "HW1", description |-> "first draft", due_at |-> Some(20),
       points_possible |-> 10],
      [id |-> 42, name |-> "HW1 (revised)", description |-> "", due_at |-> Some(60),
       points_possible |-> 20],
      [id |-> 43, name |-> "Reading", due_at |-> None] }

\* a second course of the student
CanvasCourse2 == [id |-> 102, name |-> "MATH 201"]

\* a timestamp text dateutil's parser.parse reads no date from
Unparsable == -1

\* parser.parse(text) raises ParserError
ParseRaises(text) ==
    text = Unparsable

\* an assignment Canvas lists with a due_at that is no timestamp
MalformedAssignments ==
    { [id |-> 44, name |-> "Essay draft", due_at |-> Some(Unparsable)] }

\* str(): the decimal text of the identifiers the services use
Str(n) ==
    CASE n = 7 -> "7"
      [] n = 42 -> "42"
      [] n = 43 -> "43"
      [] n = 44 -> "44"
      [] n = 101 -> "101"

\* Microsoft Graph: calendar events and unread high-importance messages
OutlookEvents ==
    { [id |-> "e1", subject |-> "Standup", bodyPreview |-> "daily",
       start |-> [dateTime |-> 20], end |-> [dateTime |-> 21]],
      [subject |-> "Office hours", bodyPreview |-> "room 2",
       start |-> [dateTime |-> 30], end |-> [dateTime |-> 31]],
      [subject |-> "Seminar", bodyPreview |-> "",
       start |-> [dateTime |-> 50], end |-> [dateTime |-> 51]] }

OutlookMessages ==
    { [id |-> "m1", subject |-> "Summer Internship", bodyPreview |-> "apply",
       body |-> [content |-> "Please apply"], receivedDateTime |-> 10],
      [id |-> "m2", subject |-> "Lunch", bodyPreview |-> "menu",
       body |-> [content |-> "Today's menu"], receivedDateTime |-> 10] }

\* text.lower(), as the set of the words of the lower-cased text
LowerWords(text) ==
    CASE text = "Summer Internship" -> {"summer", "internship"}
      [] text = "Please apply" -> {"please", "apply"}
      [] text = "Lunch" -> {"lunch"}
      [] text = "Today's menu" -> {"today's", "menu"}
      [] OTHER -> {}

\* Google Calendar: events of the primary calendar
GoogleEvents ==
    { [id |-> "g1", summary |-> "Lab", start |-> [dateTime |-> 40],
       end |-> [dateTime |-> 41]] }

\* Handshake: job postings
HandshakeJobs ==
    { [id |-> 7, title |-> "Intern", application_deadline |-> 100] }

\* What one HTTP call can end in: the client raises (no connection, timeout),
\* the service answers an error status, or it answers 200 with a body.
Responses(bodies) ==
    { [raised |-> TRUE, status_code |-> 0, body |-> <<>>],
      [raised |-> FALSE, status_code |-> 500, body |-> <<>>] }
    \cup { [raised |-> FALSE, status_code |-> 200, body |-> b] : b \in bodies }

\* What the services can answer to one fetch_tasks of each connector
Upstream(source) ==
    CASE source = CANVAS ->
           { [courses |-> c, assignments |-> a] :
               c \in Responses({<<CanvasCourse>>}),
               a \in [{CanvasCourse.id} ->
                         Responses(SeqsUpTo(CanvasAssignments, MaxBatch))] }
      [] source = OUTLOOK ->
           { [events |-> e, messages |-> m] :
               e \in Responses(SeqsUpTo(OutlookEvents, MaxBatch)),
               m \in Responses(SeqsUpTo(OutlookMessages, MaxBatch)) }
      [] source = GOOGLE_CALENDAR ->
           { [events |-> e] : e \in Responses(SeqsUpTo(GoogleEvents, MaxBatch)) }
      [] source = HANDSHAKE ->
           { [jobs |-> j] : j \in Responses(SeqsUpTo(HandshakeJobs, MaxBatch)) }

-----------------------------------------------------------------------------
(* integrations.py: the connectors *)

\* a faulty scoring: an assignment due in exactly 24 hours still scores 3
CanvasNormalizeDayIn(raw_data, source_type) ==
    LET due_date == Get(raw_data, "due_at", None)
        hours_until_due == Val(due_date) - now
        priority ==
            IF due_date = None THEN 0
            ELSE IF hours_until_due <= 24 THEN 3
            ELSE IF hours_until_due < 48 THEN 2
            ELSE IF hours_until_due < 168 THEN 1
            ELSE 0
    IN  [ title |-> Get(raw_data, "name", "Untitled Assignment"),
          description |-> Some(Get(raw_data, "description", "")),
          task_type |-> "assignment",
          source_type |-> source_type,
          source_id |-> Some(Str(raw_data.id)),
          due_date |-> due_date,
          priority |-> priority,
          task_metadata |-> Some(<<Get(raw_data, "course_name", None),
                                   Get(raw_data, "course_id", None),
                                   GetOpt(raw_data, "points_possible")>>) ]

\* CanvasIntegration.normalize_task
CanvasNormalize(raw_data, source_type) ==
    LET due_date == Get(raw_data, "due_at", None)
        hours_until_due == Val(due_date) - now
        priority ==
            IF due_date = None THEN 0
            ELSE IF hours_until_due < 24 THEN 3
            ELSE IF hours_until_due < 48 THEN 2
            ELSE IF hours_until_due < 168 THEN 1
            ELSE 0
    IN  [ title |-> Get(raw_data, "name", "Untitled Assignment"),
          description |-> Some(Get(raw_data, "description", "")),
          task_type |-> "assignment",
          source_type |-> source_type,
          source_id |-> Some(Str(raw_data.id)),
          due_date |-> due_date,
          priority |-> priority,
          task_metadata |-> Some(<<Get(raw_data, "course_name", None),
                                   Get(raw_data, "course_id", None),
                                   GetOpt(raw_data, "points_possible")>>) ]

\* MicrosoftGraphIntegration.normalize_calendar_event
OutlookNormalizeEvent(raw_data, source_type) ==
    LET start_date ==
            IF "start" \in DOMAIN raw_data THEN Some(raw_data.start.dateTime) ELSE None
        due_date ==
            IF "end" \in DOMAIN raw_data THEN Some(raw_data.end.dateTime) ELSE None
        priority ==
            IF start_date = None THEN 0
            ELSE IF Val(start_date) - now < 24 THEN 1 ELSE 0
    IN  [ title |-> Get(raw_data, "subject", "Untitled Meeting"),
          description |-> Some(Get(raw_data, "bodyPreview", "")),
          task_type |-> "meeting",
          source_type |-> source_type,
          source_id |-> GetOpt(raw_data, "id"),
          due_date |-> due_date,
          start_date |-> start_date,
          priority |-> priority,
          task_metadata |-> Some(<<GetOpt(raw_data, "location")>>) ]

\* MicrosoftGraphIntegration.normalize_email
OutlookNormalizeEmail(raw_data, source_type) ==
    LET received_date ==
            IF "receivedDateTime" \in DOMAIN raw_data
            THEN Some(raw_data.receivedDateTime) ELSE None
    IN  [ title |-> Get(raw_data, "subject", "Untitled Email"),
          description |-> Some(Get(raw_data, "bodyPreview", "")),
          task_type |-> "email",
          source_type |-> source_type,
          source_id |-> GetOpt(raw_data, "id"),
          due_date |-> received_date,
          priority |-> 2,
          task_metadata |-> Some(<<Get(raw_data, "hasAttachments", FALSE)>>) ]

\* a faulty scoring: a Google Calendar event scores 1 up to 48 hours ahead
GoogleNormalizeTwoDays(raw_data, source_type) ==
    LET start_date ==
            IF "start" \in DOMAIN raw_data THEN Some(raw_data.start.dateTime) ELSE None
        due_date ==
            IF "end" \in DOMAIN raw_data THEN Some(raw_data.end.dateTime) ELSE None
        priority ==
            IF start_date = None THEN 0
            ELSE IF Val(start_date) - now < 48 THEN 1 ELSE 0
    IN  [ title |-> Get(raw_data, "summary", "Untitled Event"),
          description |-> Some(Get(raw_data, "description", "")),
          task_type |-> "meeting",
          source_type |-> source_type,
          source_id |-> GetOpt(raw_data, "id"),
          due_date |-> due_date,
          start_date |-> start_date,
          priority |-> priority,
          task_metadata |-> Some(<<GetOpt(raw_data, "location"),
                                   GetOpt(raw_data, "hangoutLink")>>) ]

\* GoogleCalendarIntegration.normalize_task
GoogleNormalize(raw_data, source_type) ==
    LET start_date ==
            IF "start" \in DOMAIN raw_data THEN Some(raw_data.start.dateTime) ELSE None
        due_date ==
            IF "end" \in DOMAIN raw_data THEN Some(raw_data.end.dateTime) ELSE None
        priority ==
            IF start_date = None THEN 0
            ELSE IF Val(start_date) - now < 24 THEN 1 ELSE 0
    IN  [ title |-> Get(raw_data, "summary", "Untitled Event"),
          description |-> Some(Get(raw_data, "description", "")),
          task_type |-> "meeting",
          source_type |-> source_type,
          source_id |-> GetOpt(raw_data, "id"),
          due_date |-> due_date,
          start_date |-> start_date,
          priority |-> priority,
          task_metadata |-> Some(<<GetOpt(raw_data, "location"),
                                   GetOpt(raw_data, "hangoutLink")>>) ]

\* HandshakeIntegration.normalize_task
HandshakeNormalize(raw_data, source_type) ==
    LET due_date ==
            IF "application_deadline" \in DOMAIN raw_data
            THEN Some(raw_data.application_deadline) ELSE None
        priority ==
            IF due_date = None THEN 1
            ELSE IF Val(due_date) - now < 168 THEN 2 ELSE 1
    IN  [ title |-> Get(raw_data, "title", "Untitled Job Posting"),
          description |-> Some(Get(raw_data, "description", "")),
          task_type |-> "internship",
          source_type |-> source_type,
          source_id |-> Some(Str(raw_data.id)),
          due_date |-> due_date,
          priority |-> priority,
          task_metadata |-> Some(<<GetOpt(raw_data, "job_type")>>) ]

\* task["user_id"] = user_id
WithUser(task, user_id) ==
    [k \in DOMAIN task \cup {"user_id"} |-> IF k = "user_id" THEN user_id ELSE task[k]]

\* What fetch_tasks ends in: an exception, or the list it returns
Raised == [raised |-> TRUE, tasks |-> <<>>]
Returned(ts) == [raised |-> FALSE, tasks |-> ts]

\* the assignments of one course that carry a due_at, normalized
CanvasCourseTasks(user_id, course, assignments) ==
    LET HasDue(a) == Get(a, "due_at", None) # None
        due == Filter(assignments, HasDue)
    IN  [i \in 1..Len(due) |->
            WithUser(CanvasNormalize(
                [k \in DOMAIN due[i] \cup {"course_name", "course_id"} |->
                    IF k = "course_name" THEN Some(Get(course, "name", "Unknown Course"))
                    ELSE IF k = "course_id" THEN Some(course.id)
                    ELSE due[i][k]], CANVAS), user_id)]

RECURSIVE CanvasCourses(_, _, _, _)
\* the loop of CanvasIntegration.fetch_tasks over the courses; nothing catches
\* what the client or normalize_task raises
CanvasCourses(user_id, courses, assignments, acc) ==
    IF courses = <<>> THEN Returned(acc)
    ELSE LET course == Head(courses)
             assignments_response == assignments[course.id]
             body == assignments_response.body
         IN  IF assignments_response.raised THEN Raised
             ELSE IF assignments_response.status_code = 200
             THEN IF \E i \in 1..Len(body) :
                        /\ Get(body[i], "due_at", None) # None
                        /\ ParseRaises(Val(body[i].due_at))
                  THEN Raised
                  ELSE CanvasCourses(user_id, Tail(courses), assignments,
                          acc \o CanvasCourseTasks(user_id, course, body))
             ELSE CanvasCourses(user_id, Tail(courses), assignments, acc)

\* CanvasIntegration.fetch_tasks
CanvasFetchTasks(user_id, up) ==
    IF up.courses.raised THEN Raised
    ELSE IF up.courses.status_code # 200 THEN Returned(<<>>)
    ELSE CanvasCourses(user_id, up.courses.body, up.assignments, <<>>)

\* the keywords of an internship-related message; "keyword in text" is read on
\* whole words
Keywords == {"internship", "interview", "application", "job", "opportunity", "position"}

\* MicrosoftGraphIntegration.fetch_tasks
OutlookFetchTasks(user_id, up) ==
    LET events == IF up.events.status_code = 200 THEN up.events.body ELSE <<>>
        Related(message) ==
            \E keyword \in Keywords :
                \/ keyword \in LowerWords(Get(message, "subject", ""))
                \/ keyword \in LowerWords(Get(message, "body", [content |-> ""]).content)
        messages ==
            IF up.messages.status_code = 200
            THEN Filter(up.messages.body, Related) ELSE <<>>
    IN  IF up.events.raised \/ up.messages.raised THEN Raised
        ELSE Returned(
            [i \in 1..Len(events) |->
                WithUser(OutlookNormalizeEvent(events[i], OUTLOOK), user_id)]
            \o [i \in 1..Len(messages) |->
                WithUser(OutlookNormalizeEmail(messages[i], OUTLOOK), user_id)])

\* GoogleCalendarIntegration.fetch_tasks
GoogleFetchTasks(user_id, up) ==
    IF up.events.raised THEN Raised
    ELSE IF up.events.status_code # 200 THEN Returned(<<>>)
    ELSE Returned([i \in 1..Len(up.events.body) |->
            WithUser(GoogleNormalize(up.events.body[i], GOOGLE_CALENDAR), user_id)])

\* HandshakeIntegration.fetch_tasks: the try/except swallows the client's exception
HandshakeFetchTasks(user_id, up) ==
    IF up.jobs.raised \/ up.jobs.status_code # 200 THEN Returned(<<>>)
    ELSE Returned([i \in 1..Len(up.jobs.body) |->
            WithUser(HandshakeNormalize(up.jobs.body[i], HANDSHAKE), user_id)])

\* integration.fetch_tasks(user_id, db) of the connector sync_user_tasks picks
FetchTasks(source, user_id, up) ==
    CASE source = CANVAS -> CanvasFetchTasks(user_id, up)
      [] source = OUTLOOK -> OutlookFetchTasks(user_id, up)
      [] source = GOOGLE_CALENDAR -> GoogleFetchTasks(user_id, up)
      [] source = HANDSHAKE -> HandshakeFetchTasks(user_id, up)

\* every outcome a fetch of the source can have at the current time
FetchOutcomes(source, user_id) ==
    { FetchTasks(source, user_id, up) : up \in Upstream(source) }

-----------------------------------------------------------------------------
(* models.py and integrations.py: the task table and the upsert *)

\* the database: the tasks table, its serial and the oauth_tokens table
Store == [rows |-> tasks, next_id |-> next_task_id, tokens |-> oauth_tokens]

\* DataFetcher.get_oauth_token: the results query.first() can give
get_oauth_token(db, user_id, source_type) ==
    LET found == { t \in db.tokens :
                     t.user_id = user_id /\ t.source_type = source_type }
    IN  IF found = {} THEN {None} ELSE { Some(t) : t \in found }

\* a faulty upsert: it adds a token without looking for the one there is
upsert_oauth_token_adds(db, user_id, source_type, access_token, refresh_token, expires_at) ==
    { [db EXCEPT !.tokens = @ \cup { [user_id |-> user_id, source_type |-> source_type,
                                       access_token |-> access_token,
                                       refresh_token |-> refresh_token,
                                       expires_at |-> expires_at] }] }

\* DataFetcher.upsert_oauth_token: the databases it can leave
upsert_oauth_token(db, user_id, source_type, access_token, refresh_token, expires_at) ==
    LET token == [user_id |-> user_id, source_type |-> source_type,
                  access_token |-> access_token, refresh_token |-> refresh_token,
                  expires_at |-> expires_at]
    IN  { IF found = None
          THEN [db EXCEPT !.tokens = @ \cup {token}]
          ELSE [db EXCEPT !.tokens = (@ \ {Val(found)}) \cup {token}]
        : found \in get_oauth_token(db, user_id, source_type) }

\* a faulty lookup: it never finds the row
MatchesNothing(row, user_id, task_data) ==
    FALSE

\* a faulty lookup: it does not compare the source
MatchesAnySource(row, user_id, task_data) ==
    /\ row.user_id = user_id
    /\ row.source_id = Get(task_data, "source_id", None)

\* the filter of the lookup in sync_user_tasks; a None source_id compares as IS NULL
Matches(row, user_id, task_data) ==
    /\ row.user_id = user_id
    /\ row.source_id = Get(task_data, "source_id", None)
    /\ row.source_type = task_data.source_type

\* DataFetcher.create_task, as sync_user_tasks calls it: the new row
CreateTask(id, task_data) ==
    [ id |-> id,
      user_id |-> task_data.user_id,
      title |-> task_data.title,
      description |-> Get(task_data, "description", None),
      task_type |-> task_data.task_type,
      status |-> PENDING,
      source_type |-> task_data.source_type,
      source_id |-> Get(task_data, "source_id", None),
      due_date |-> Get(task_data, "due_date", None),
      start_date |-> Get(task_data, "start_date", None),
      priority |-> Get(task_data, "priority", 0),
      task_metadata |-> Get(task_data, "task_metadata", None) ]

\* a faulty update: it adds the fetched priority to the stored one
UpdateTaskAddsPriority(existing_task, task_data) ==
    [ key \in DOMAIN existing_task |->
        IF key = "priority" /\ key \in DOMAIN task_data
        THEN existing_task[key] + task_data[key]
        ELSE IF key \in DOMAIN task_data /\ key # "user_id"
        THEN task_data[key] ELSE existing_task[key] ]

\* a faulty update: it leaves the stored due_date
UpdateTaskKeepsDueDate(existing_task, task_data) ==
    [ key \in DOMAIN existing_task |->
        IF key \in DOMAIN task_data /\ key \notin {"user_id", "due_date"}
        THEN task_data[key] ELSE existing_task[key] ]

\* a faulty update: it also resets the status, as an insert would set it
UpdateTaskResetsStatus(existing_task, task_data) ==
    [ key \in DOMAIN existing_task |->
        IF key = "status" THEN PENDING
        ELSE IF key \in DOMAIN task_data /\ key # "user_id"
        THEN task_data[key] ELSE existing_task[key] ]

\* the setattr loop over an existing row: every key of task_data but user_id
UpdateTask(existing_task, task_data) ==
    [ key \in DOMAIN existing_task |->
        IF key \in DOMAIN task_data /\ key # "user_id"
        THEN task_data[key] ELSE existing_task[key] ]

RECURSIVE UpsertTasks(_, _, _)
\* the upsert loop of sync_user_tasks and its commit: the stores it can leave
UpsertTasks(store, user_id, all_tasks) ==
    IF all_tasks = <<>> THEN {store}
    ELSE LET task_data == Head(all_tasks)
             existing == { i \in 1..Len(store.rows) :
                             Matches(store.rows[i], user_id, task_data) }
         IN  IF existing = {}
             THEN UpsertTasks(
                     [store EXCEPT !.rows = Append(@, CreateTask(store.next_id, task_data)),
                                   !.next_id = @ + 1],
                     user_id, Tail(all_tasks))
             ELSE UNION { UpsertTasks(
                             [store EXCEPT !.rows[i] = UpdateTask(@, task_data)],
                             user_id, Tail(all_tasks)) : i \in existing }

RECURSIVE MergeInterrupted(_, _, _, _, _)
\* The upsert loop of sync_user_tasks when an exception (the database refuses a
\* statement, the connection drops) ends it at item `fail_at`: the stores the
\* database is left with.  `committed` is what the last commit made durable,
\* `session` what the session has changed since; create_task commits the
\* session, a setattr on an existing row waits for the next commit.
MergeInterrupted(committed, session, user_id, all_tasks, fail_at) ==
    IF fail_at <= 1 \/ all_tasks = <<>> THEN {committed}
    ELSE LET task_data == Head(all_tasks)
             existing == { i \in 1..Len(session.rows) :
                             Matches(session.rows[i], user_id, task_data) }
             created == [session EXCEPT
                            !.rows = Append(@, CreateTask(session.next_id, task_data)),
                            !.next_id = @ + 1]
         IN  IF existing = {}
             THEN MergeInterrupted(created, created, user_id, Tail(all_tasks), fail_at - 1)
             ELSE UNION { MergeInterrupted(
                             committed,
                             [session EXCEPT !.rows[i] = UpdateTask(@, task_data)],
                             user_id, Tail(all_tasks), fail_at - 1) : i \in existing }

\* a faulty test: it skips a source only when there is no token
SkippedOnlyWithoutToken(token) ==
    token = None

\* whether sync_user_tasks skips a source: no token, or a token that has expired
Skipped(token) ==
    \/ token = None
    \/ Val(token).expires_at # None /\ Val(Val(token).expires_at) < now

RECURSIVE NextAwait(_, _, _)
\* The source loop of sync_user_tasks up to its next await: the suffixes of
\* sources whose head is the source being fetched (empty: the loop is over).
NextAwait(db, user_id, sources) ==
    IF sources = <<>> THEN {<<>>}
    ELSE UNION { IF Skipped(token) THEN NextAwait(db, user_id, Tail(sources))
                 ELSE {sources} : token \in get_oauth_token(db, user_id, Head(sources)) }

\* a sync_user_tasks call: the user, the sources left (the head is being fetched),
\* the tasks fetched so far, and (history) how each fetch of the call ended
SyncCall(user_id, sources, all_tasks, fetched) ==
    [user_id |-> user_id, sources |-> sources, all_tasks |-> all_tasks,
     fetched |-> fetched]

\* sync_user_tasks from the top of its source loop to its next await or its return
SyncRun(store, user_id, sources, all_tasks, fetched) ==
    UNION { IF rest # <<>>
            THEN { [done |-> FALSE, store |-> store,
                    call |-> SyncCall(user_id, rest, all_tasks, fetched)] }
            ELSE { [done |-> TRUE, store |-> st,
                    call |-> SyncCall(user_id, <<>>, all_tasks, fetched)] :
                      st \in UpsertTasks(store, user_id, all_tasks) }
          : rest \in NextAwait(store, user_id, sources) }

\* a faulty resumption: a fetch that raises discards what was fetched before it
SyncResumeDiscards(store, call, outcome) ==
    SyncRun(store, call.user_id, Tail(call.sources),
            IF outcome.raised THEN <<>> ELSE call.all_tasks \o outcome.tasks,
            Append(call.fetched, [source |-> Head(call.sources),
                                  raised |-> outcome.raised, tasks |-> outcome.tasks]))

\* sync_user_tasks resumed by the outcome of the fetch it awaits
SyncResume(store, call, outcome) ==
    SyncRun(store, call.user_id, Tail(call.sources),
            IF outcome.raised THEN call.all_tasks ELSE call.all_tasks \o outcome.tasks,
            Append(call.fetched, [source |-> Head(call.sources),
                                  raised |-> outcome.raised, tasks |-> outcome.tasks]))

\* a faulty return: the count is the number of rows inserted
SyncReturnedCountsInserted(r) ==
    [op |-> "sync", user_id |-> r.call.user_id,
     count |-> r.store.next_id - next_task_id,
     batch |-> r.call.all_tasks, fetched |-> r.call.fetched,
     inserted |-> r.store.next_id - next_task_id,
     rerun |-> /\ last.op = "sync"
               /\ last.user_id = r.call.user_id
               /\ last.batch = r.call.all_tasks]

\* what a returned sync leaves in "last": the count it returned and (history)
\* what it fetched, how many rows it inserted, and whether it repeats the sync
\* before it
SyncReturned(r) ==
    [op |-> "sync", user_id |-> r.call.user_id, count |-> Len(r.call.all_tasks),
     batch |-> r.call.all_tasks, fetched |-> r.call.fetched,
     inserted |-> r.store.next_id - next_task_id,
     rerun |-> /\ last.op = "sync"
               /\ last.user_id = r.call.user_id
               /\ last.batch = r.call.all_tasks]

-----------------------------------------------------------------------------
(* summarizer.py and the queries of models.py it uses *)

\* the sequences that list every element of the finite set S once
Perms(S) ==
    { p \in [1..Cardinality(S) -> S] : \A i, j \in 1..Cardinality(S) : i # j => p[i] # p[j] }

\* the rows (as positions in the table) a query selects
RowsWhere(Test(_)) ==
    { i \in 1..Len(tasks) : Test(tasks[i]) }

\* ORDER BY due_date ASC, priority DESC: whether row a must come before row b
\* (PostgreSQL sorts NULL last in ascending order)
OrderedBefore(a, b) ==
    \/ a.due_date # None /\ b.due_date = None
    \/ a.due_date # None /\ b.due_date # None /\ Val(a.due_date) < Val(b.due_date)
    \/ a.due_date = b.due_date /\ a.priority > b.priority

\* a faulty query: it does not filter on the status
get_tasks_any_status(user_id, status) ==
    LET Selected(t) == t.user_id = user_id
    IN  { p \in Perms(RowsWhere(Selected)) :
            \A i, j \in 1..Len(p) : i < j => ~OrderedBefore(tasks[p[j]], tasks[p[i]]) }

\* DataFetcher.get_tasks: the lists the query can return (rows that tie on the
\* ORDER BY come in any order); status None selects every status
get_tasks(user_id, status) ==
    LET Selected(t) == t.user_id = user_id /\ (status = None \/ t.status = Val(status))
    IN  { p \in Perms(RowsWhere(Selected)) :
            \A i, j \in 1..Len(p) : i < j => ~OrderedBefore(tasks[p[j]], tasks[p[i]]) }

\* DataFetcher.get_overdue_tasks: no ORDER BY, so any order; a NULL due_date
\* never satisfies the comparison
get_overdue_tasks(user_id) ==
    LET Selected(t) ==
            /\ t.user_id = user_id
            /\ t.status = PENDING
            /\ t.due_date # None /\ Val(t.due_date) < now
    IN  Perms(RowsWhere(Selected))

\* a faulty query: it does not look at the status
get_high_priority_tasks_any_status(user_id, hours) ==
    LET Selected(t) ==
            /\ t.user_id = user_id
            /\ t.due_date # None
            /\ Val(t.due_date) >= now
            /\ Val(t.due_date) <= now + hours
    IN  RowsWhere(Selected)

\* a faulty query: the deadline itself is left out
get_high_priority_tasks_before(user_id, hours) ==
    LET Selected(t) ==
            /\ t.user_id = user_id
            /\ t.status = PENDING
            /\ t.due_date # None
            /\ Val(t.due_date) >= now
            /\ Val(t.due_date) < now + hours
    IN  RowsWhere(Selected)

\* DataFetcher.get_high_priority_tasks
get_high_priority_tasks(user_id, hours) ==
    LET Selected(t) ==
            /\ t.user_id = user_id
            /\ t.status = PENDING
            /\ t.due_date # None
            /\ Val(t.due_date) >= now
            /\ Val(t.due_date) <= now + hours
    IN  RowsWhere(Selected)

\* datetime.max, which stands in for a missing due_date in the sort key
DatetimeMax == 87649415

\* a faulty sort key: the priority ascending
SortKeyPriorityAscending(t) ==
    << IF t.status = OVERDUE THEN 0 ELSE 1,
       IF t.due_date # None THEN Val(t.due_date) ELSE DatetimeMax,
       t.priority >>

\* the sort key of summarize_tasks
SortKey(t) ==
    << IF t.status = OVERDUE THEN 0 ELSE 1,
       IF t.due_date # None THEN Val(t.due_date) ELSE DatetimeMax,
       0 - t.priority >>

\* tuple comparison of two sort keys
KeyLess(a, b) ==
    \/ a[1] < b[1]
    \/ a[1] = b[1] /\ a[2] < b[2]
    \/ a[1] = b[1] /\ a[2] = b[2] /\ a[3] < b[3]

\* Whether sorted() raises TypeError.  datetime.max is naive and a stored
\* due_date is timezone-aware, and Python refuses to order the two.  Keys are
\* compared as tuples, so the two datetimes meet only in keys of the same rank;
\* a comparison sort cannot order a list without comparing some key that holds
\* datetime.max with some key of its rank that holds a due_date.
SortRaises(rows, seq) ==
    \E i, j \in 1..Len(seq) :
        /\ SortKey(rows[seq[i]])[1] = SortKey(rows[seq[j]])[1]
        /\ rows[seq[i]].due_date = None
        /\ rows[seq[j]].due_date # None

RECURSIVE Sorted(_, _)
\* sorted(seq, key=...): stable, so an element goes after the elements already
\* placed whose key is not greater
Sorted(rows, seq) ==
    IF seq = <<>> THEN <<>>
    ELSE LET front == Sorted(rows, SubSeq(seq, 1, Len(seq) - 1))
             x == seq[Len(seq)]
             k == Cardinality({ i \in 1..Len(front) :
                     ~KeyLess(SortKey(rows[x]), SortKey(rows[front[i]])) })
         IN  SubSeq(front, 1, k) \o <<x>> \o SubSeq(front, k + 1, Len(front))

\* a faulty transition: every row that is past due becomes overdue
MarkOverdueWhateverStatus(rows, overdue_tasks) ==
    [ i \in 1..Len(rows) |->
        IF rows[i].due_date # None /\ Val(rows[i].due_date) < now
        THEN [rows[i] EXCEPT !.status = OVERDUE] ELSE rows[i] ]

\* the rows of overdue_tasks that are still pending become overdue; each is committed
MarkOverdue(rows, overdue_tasks) ==
    [ i \in 1..Len(rows) |->
        IF (\E k \in 1..Len(overdue_tasks) : overdue_tasks[k] = i) /\ rows[i].status = PENDING
        THEN [rows[i] EXCEPT !.status = OVERDUE] ELSE rows[i] ]

\* the list summarize_tasks sorts
ToSort(pending_tasks, overdue_tasks) ==
    pending_tasks \o overdue_tasks

\* tasks_by_source: the pending tasks counted by source_type
TasksBySource(pending_tasks) ==
    LET sources == { tasks[pending_tasks[i]].source_type : i \in 1..Len(pending_tasks) }
    IN  [ src \in sources |->
            Cardinality({ i \in 1..Len(pending_tasks) :
                            tasks[pending_tasks[i]].source_type = src }) ]

\* TaskSummarizer.summarize_tasks with the lists its queries returned: the rows
\* it leaves and what it returns (raised: the sort raised after the commits)
SummarizeTasks(user_id, all_tasks, overdue_tasks) ==
    LET IsPending(i) == tasks[i].status = PENDING
        pending_tasks == Filter(all_tasks, IsPending)
        high_priority_tasks == get_high_priority_tasks(user_id, 48)
        rows == MarkOverdue(tasks, overdue_tasks)
        to_sort == ToSort(pending_tasks, overdue_tasks)
    IN  [ rows |-> rows,
          raised |-> SortRaises(rows, to_sort),
          total_tasks |-> Len(all_tasks),
          pending_tasks |-> Len(pending_tasks),
          overdue_tasks |-> Len(overdue_tasks),
          high_priority_tasks |-> Cardinality(high_priority_tasks),
          tasks_by_source |-> TasksBySource(pending_tasks),
          tasks |-> IF SortRaises(rows, to_sort) THEN <<>>
                    ELSE LET sorted_tasks == Sorted(rows, to_sort)
                         IN  [ i \in 1..Len(sorted_tasks) |-> rows[sorted_tasks[i]].id ] ]

\* what a summary leaves in "last"
SummaryReturned(op, user_id, r) ==
    IF r.raised THEN [op |-> op, user_id |-> user_id, raised |-> TRUE]
    ELSE [op |-> op, user_id |-> user_id, raised |-> FALSE,
          total_tasks |-> r.total_tasks, pending_tasks |-> r.pending_tasks,
          overdue_tasks |-> r.overdue_tasks,
          high_priority_tasks |-> r.high_priority_tasks,
          tasks_by_source |-> r.tasks_by_source, tasks |-> r.tasks]

\* get_plain_language_summary: source.replace("_", " ").title()
SourceName(source) ==
    CASE source = CANVAS -> "Canvas"
      [] source = OUTLOOK -> "Outlook"
      [] source = GOOGLE_CALENDAR -> "Google Calendar"
      [] source = HANDSHAKE -> "Handshake"
      [] source = MANUAL -> "Manual"

RECURSIVE SourceOrder(_, _)
\* the keys of tasks_by_source in insertion order: the sources of the pending
\* tasks in the order of their first task
SourceOrder(sources, seen) ==
    IF sources = <<>> THEN <<>>
    ELSE IF Head(sources) \in seen THEN SourceOrder(Tail(sources), seen)
    ELSE <<Head(sources)>> \o SourceOrder(Tail(sources), seen \cup {Head(sources)})

\* faulty clauses: the total of the pending tasks is told also when it is zero
PlainPartsWithZeroTotal(summary, source_order) ==
    (IF summary.overdue_tasks > 0
     THEN << <<"overdue", summary.overdue_tasks, summary.overdue_tasks > 1>> >>
     ELSE <<>>)
    \o (IF summary.high_priority_tasks > 0
        THEN << <<"due within 48 hours", summary.high_priority_tasks,
                  summary.high_priority_tasks > 1>> >>
        ELSE <<>>)
    \o << <<"pending total", summary.pending_tasks, summary.pending_tasks > 1>> >>
    \o (IF source_order # <<>>
        THEN << <<"Tasks", [ i \in 1..Len(source_order) |->
                              <<summary.tasks_by_source[source_order[i]],
                                SourceName(source_order[i])>> ], FALSE>> >>
        ELSE <<>>)

\* faulty clauses: the tasks due within 48 hours are told before the overdue ones
PlainPartsHighFirst(summary, source_order) ==
    (IF summary.high_priority_tasks > 0
     THEN << <<"due within 48 hours", summary.high_priority_tasks,
               summary.high_priority_tasks > 1>> >>
     ELSE <<>>)
    \o (IF summary.overdue_tasks > 0
        THEN << <<"overdue", summary.overdue_tasks, summary.overdue_tasks > 1>> >>
        ELSE <<>>)
    \o (IF summary.pending_tasks > 0
        THEN << <<"pending total", summary.pending_tasks, summary.pending_tasks > 1>> >>
        ELSE <<>>)
    \o (IF source_order # <<>>
        THEN << <<"Tasks", [ i \in 1..Len(source_order) |->
                              <<summary.tasks_by_source[source_order[i]],
                                SourceName(source_order[i])>> ], FALSE>> >>
        ELSE <<>>)

\* TaskSummarizer.get_plain_language_summary: the clauses it joins with ". ",
\* each with its count (and whether the noun is plural); empty when it
\* returns the all-caught-up sentence
PlainParts(summary, source_order) ==
    (IF summary.overdue_tasks > 0
     THEN << <<"overdue", summary.overdue_tasks, summary.overdue_tasks > 1>> >>
     ELSE <<>>)
    \o (IF summary.high_priority_tasks > 0
        THEN << <<"due within 48 hours", summary.high_priority_tasks,
                  summary.high_priority_tasks > 1>> >>
        ELSE <<>>)
    \o (IF summary.pending_tasks > 0
        THEN << <<"pending total", summary.pending_tasks, summary.pending_tasks > 1>> >>
        ELSE <<>>)
    \o (IF source_order # <<>>
        THEN << <<"Tasks", [ i \in 1..Len(source_order) |->
                              <<summary.tasks_by_source[source_order[i]],
                                SourceName(source_order[i])>> ], FALSE>> >>
        ELSE <<>>)

\* the sentence returned when there is no clause
AllCaughtUp == "No pending tasks. You're all caught up!"

\* timedelta.days of due_date - now: whole days, rounded down
DaysUntil(due_date) ==
    (Val(due_date) - now) \div 24

\* a faulty bucketing: a task due in exactly seven days still counts as this week
WeeklyBucketSevenDaysIn(t) ==
    IF t.due_date = None THEN "later"
    ELSE IF DaysUntil(t.due_date) <= 7 THEN "this_week"
    ELSE IF DaysUntil(t.due_date) < 14 THEN "next_week"
    ELSE "later"

\* TaskSummarizer.get_weekly_summary: the bucket of a pending task
WeeklyBucket(t) ==
    IF t.due_date = None THEN "later"
    ELSE IF DaysUntil(t.due_date) < 0 THEN "this_week"
    ELSE IF DaysUntil(t.due_date) < 7 THEN "this_week"
    ELSE IF DaysUntil(t.due_date) < 14 THEN "next_week"
    ELSE "later"

-----------------------------------------------------------------------------
(* main.py: the endpoints *)

\* POST /sync: sync_tasks calls sync_user_tasks for the user, for every source
\* (scope None) or for one
SyncStart(user_id, scope) ==
    /\ next_task_id <= MaxTaskId
    /\ BagCardinality(syncs) < MaxInFlight
    /\ \E r \in SyncRun(Store, user_id,
                        IF scope = None THEN SyncSources ELSE <<Val(scope)>>,
                        <<>>, <<>>) :
          /\ tasks' = r.store.rows
          /\ next_task_id' = r.store.next_id
          /\ syncs' = IF r.done THEN syncs ELSE syncs (+) SetToBag({r.call})
          /\ last' = IF r.done THEN SyncReturned(r) ELSE last
    /\ UNCHANGED <<now, oauth_tokens, running, loops>>

\* the fetch an on-demand sync awaits ends, and the sync runs on
FetchReturn(call) ==
    /\ BagIn(call, syncs)
    /\ \E outcome \in FetchOutcomes(Head(call.sources), call.user_id) :
       \E r \in SyncResume(Store, call, outcome) :
          /\ tasks' = r.store.rows
          /\ next_task_id' = r.store.next_id
          /\ syncs' = IF r.done THEN syncs (-) SetToBag({call})
                      ELSE (syncs (-) SetToBag({call})) (+) SetToBag({r.call})
          /\ last' = IF r.done THEN SyncReturned(r) ELSE last
    /\ UNCHANGED <<now, oauth_tokens, running, loops>>

\* The last fetch an on-demand sync awaits ends and the upsert loop raises at
\* one of its items: sync_tasks answers 500, and the database keeps what was
\* committed before the exception.
SyncFails(call) ==
    /\ BagIn(call, syncs)
    /\ NextAwait(Store, call.user_id, Tail(call.sources)) = {<<>>}
    /\ \E outcome \in FetchOutcomes(Head(call.sources), call.user_id) :
          LET all_tasks == IF outcome.raised THEN call.all_tasks
                           ELSE call.all_tasks \o outcome.tasks
          IN  \E fail_at \in 1..Len(all_tasks) :
              \E db \in MergeInterrupted(Store, Store, call.user_id, all_tasks, fail_at) :
                 /\ tasks' = db.rows
                 /\ next_task_id' = db.next_id
                 /\ last' = [op |-> "sync_failed", user_id |-> call.user_id,
                             batch |-> all_tasks, fail_at |-> fail_at]
    /\ syncs' = syncs (-) SetToBag({call})
    /\ UNCHANGED <<now, oauth_tokens, running, loops>>

\* POST /auth/canvas/token: add_canvas_token, once Canvas has accepted the token;
\* it stores the token and syncs the user's Canvas tasks
AddCanvasToken(user_id, access_token) ==
    /\ next_task_id <= MaxTaskId
    /\ BagCardinality(syncs) < MaxInFlight
    /\ \E db \in upsert_oauth_token(Store, user_id, CANVAS, access_token, None, None) :
       \E r \in SyncRun(db, user_id, <<CANVAS>>, <<>>, <<>>) :
          /\ oauth_tokens' = db.tokens
          /\ tasks' = r.store.rows
          /\ next_task_id' = r.store.next_id
          /\ syncs' = IF r.done THEN syncs ELSE syncs (+) SetToBag({r.call})
          /\ last' = IF r.done THEN SyncReturned(r) ELSE [op |-> "add_canvas_token"]
    /\ UNCHANGED <<now, running, loops>>

\* source_map of oauth_callback
source_map ==
    [canvas |-> CANVAS, microsoft |-> OUTLOOK, google |-> GOOGLE_CALENDAR,
     handshake |-> HANDSHAKE]

\* what exchange_code returns: the provider's tokens, and the expiry it works
\* out from expires_in (in hours here)
TokenData ==
    { [access_token |-> "token", refresh_token |-> None, expires_at |-> Some(now + 1)],
      [access_token |-> "token2", refresh_token |-> Some("refresh"),
       expires_at |-> Some(now + 1)],
      [access_token |-> "token2", refresh_token |-> None, expires_at |-> Some(now + 12)] }

\* POST /auth/{source}/callback: oauth_callback, once exchange_code has returned;
\* it stores the tokens and syncs the user's tasks of that source
OAuthCallback(source, user_id, token_data) ==
    /\ next_task_id <= MaxTaskId
    /\ BagCardinality(syncs) < MaxInFlight
    /\ source \in DOMAIN source_map
    /\ LET source_type == source_map[source]
       IN  \E db \in upsert_oauth_token(Store, user_id, source_type,
                                        token_data.access_token,
                                        token_data.refresh_token,
                                        token_data.expires_at) :
           \E r \in SyncRun(db, user_id, <<source_type>>, <<>>, <<>>) :
              /\ oauth_tokens' = db.tokens
              /\ tasks' = r.store.rows
              /\ next_task_id' = r.store.next_id
              /\ syncs' = IF r.done THEN syncs ELSE syncs (+) SetToBag({r.call})
              /\ last' = [op |-> "oauth_callback", user_id |-> user_id,
                          source_type |-> source_type, token_data |-> token_data,
                          existing |-> get_oauth_token(Store, user_id, source_type)]
    /\ UNCHANGED <<now, running, loops>>

\* the bodies POST /tasks/manual is called with
ManualTasks ==
    { [title |-> "Essay", description |-> None, task_type |-> "manual",
       due_date |-> None, start_date |-> None, priority |-> 0],
      [title |-> "Lab report", description |-> Some("week 3"), task_type |-> "assignment",
       due_date |-> Some(20), start_date |-> None, priority |-> 1],
      [title |-> "Project", description |-> None, task_type |-> "manual",
       due_date |-> Some(72), start_date |-> None, priority |-> 2],
      [title |-> "Quiz", description |-> None, task_type |-> "assignment",
       due_date |-> Some(72), start_date |-> None, priority |-> 0] }

\* bodies of POST /tasks/manual whose due dates lie around the week boundaries:
\* half a day, 7 days, 7 days 23 hours, 14 days and 15 days after the origin
WeekBoundaryTasks ==
    { [title |-> "Due", description |-> None, task_type |-> "manual",
       due_date |-> due_date, start_date |-> None, priority |-> 0] :
        due_date \in {None, Some(12), Some(168), Some(191), Some(336), Some(360)} }

\* POST /tasks/manual: create_manual_task
CreateManualTask(user_id, task) ==
    /\ Cardinality(RowsWhere(LAMBDA t : t.source_type = MANUAL)) < MaxManual
    /\ tasks' = Append(tasks,
          [ id |-> next_task_id, user_id |-> user_id, title |-> task.title,
            description |-> task.description, task_type |-> task.task_type,
            status |-> PENDING, source_type |-> MANUAL, source_id |-> None,
            due_date |-> task.due_date, start_date |-> task.start_date,
            priority |-> task.priority, task_metadata |-> None ])
    /\ next_task_id' = next_task_id + 1
    /\ last' = [op |-> "create_manual_task"]
    /\ UNCHANGED <<now, oauth_tokens, syncs, running, loops>>

\* a faulty lookup: it does not compare the owner
get_task_any_user(task_id, user_id) ==
    { i \in 1..Len(tasks) : tasks[i].id = task_id }

\* DataFetcher.get_task
get_task(task_id, user_id) ==
    { i \in 1..Len(tasks) : tasks[i].id = task_id /\ tasks[i].user_id = user_id }

\* PUT /tasks/{task_id}/status: DataFetcher.update_task_status
UpdateTaskStatus(task_id, user_id, status) ==
    /\ \/ /\ get_task(task_id, user_id) = {}
          /\ tasks' = tasks
       \/ \E i \in get_task(task_id, user_id) :
             tasks' = [tasks EXCEPT ![i].status = status]
    /\ last' = [op |-> "update_task_status"]
    /\ UNCHANGED <<now, next_task_id, oauth_tokens, syncs, running, loops>>

\* what a task endpoint leaves in "last": the request and the status it answers
TaskAnswered(op, task_id, user_id, found) ==
    [op |-> op, task_id |-> task_id, user_id |-> user_id,
     status_code |-> IF found = {} THEN 404 ELSE 200]

\* GET /tasks/{task_id}: get_task
GetTask(task_id, user_id) ==
    /\ last' = TaskAnswered("get_task", task_id, user_id, get_task(task_id, user_id))
    /\ UNCHANGED <<now, tasks, next_task_id, oauth_tokens, syncs, running, loops>>

\* PUT /tasks/{task_id}/status: update_task_status, with its answer
PutTaskStatus(task_id, user_id, status) ==
    /\ \/ /\ get_task(task_id, user_id) = {}
          /\ tasks' = tasks
       \/ \E i \in get_task(task_id, user_id) :
             tasks' = [tasks EXCEPT ![i].status = status]
    /\ last' = TaskAnswered("update_task_status", task_id, user_id,
                            get_task(task_id, user_id))
    /\ UNCHANGED <<now, next_task_id, oauth_tokens, syncs, running, loops>>

\* the bodies PUT /tasks/{task_id} is called with
TaskUpdates ==
    { [status |-> None, title |-> Some("Edited"), description |-> None,
       priority |-> None],
      [status |-> Some(COMPLETE), title |-> None, description |-> Some("note"),
       priority |-> Some(2)] }

\* PUT /tasks/{task_id}: update_task
PutTask(task_id, user_id, task_update) ==
    /\ \/ /\ get_task(task_id, user_id) = {}
          /\ tasks' = tasks
       \/ \E i \in get_task(task_id, user_id) :
             tasks' = [tasks EXCEPT
                ![i].status = IF task_update.status # None
                              THEN Val(task_update.status) ELSE @,
                ![i].title = IF task_update.title # None
                             THEN Val(task_update.title) ELSE @,
                ![i].description = IF task_update.description # None
                                   THEN task_update.description ELSE @,
                ![i].priority = IF task_update.priority # None
                                THEN Val(task_update.priority) ELSE @]
    /\ last' = TaskAnswered("update_task", task_id, user_id, get_task(task_id, user_id))
    /\ UNCHANGED <<now, next_task_id, oauth_tokens, syncs, running, loops>>

\* DELETE /tasks/{task_id}: delete_task
DeleteTask(task_id, user_id) ==
    /\ \/ /\ get_task(task_id, user_id) = {}
          /\ tasks' = tasks
       \/ \E i \in get_task(task_id, user_id) :
             tasks' = SubSeq(tasks, 1, i - 1) \o SubSeq(tasks, i + 1, Len(tasks))
    /\ last' = TaskAnswered("delete_task", task_id, user_id, get_task(task_id, user_id))
    /\ UNCHANGED <<now, next_task_id, oauth_tokens, syncs, running, loops>>

\* GET /tasks: TaskSummarizer.summarize_tasks
GetTasks(user_id) ==
    /\ \E all_tasks \in get_tasks(user_id, None) :
       \E overdue_tasks \in get_overdue_tasks(user_id) :
          LET r == SummarizeTasks(user_id, all_tasks, overdue_tasks)
          IN  /\ tasks' = r.rows
              /\ last' = SummaryReturned("summarize", user_id, r)
    /\ UNCHANGED <<now, next_task_id, oauth_tokens, syncs, running, loops>>

\* GET /tasks/plain: TaskSummarizer.get_plain_language_summary
GetTasksPlainSummary(user_id) ==
    /\ \E all_tasks \in get_tasks(user_id, None) :
       \E overdue_tasks \in get_overdue_tasks(user_id) :
          LET r == SummarizeTasks(user_id, all_tasks, overdue_tasks)
              IsPending(i) == tasks[i].status = PENDING
              pending_tasks == Filter(all_tasks, IsPending)
              parts == PlainParts(r,
                  SourceOrder([ i \in 1..Len(pending_tasks) |->
                                  tasks[pending_tasks[i]].source_type ], {}))
          IN  /\ tasks' = r.rows
              /\ last' = IF r.raised
                         THEN [op |-> "plain", user_id |-> user_id, raised |-> TRUE]
                         ELSE [op |-> "plain", user_id |-> user_id, raised |-> FALSE,
                               counts |-> [overdue_tasks |-> r.overdue_tasks,
                                           high_priority_tasks |-> r.high_priority_tasks,
                                           pending_tasks |-> r.pending_tasks,
                                           tasks_by_source |-> r.tasks_by_source],
                               parts |-> parts,
                               summary |-> IF parts = <<>> THEN AllCaughtUp ELSE ""]
    /\ UNCHANGED <<now, next_task_id, oauth_tokens, syncs, running, loops>>

\* GET /tasks/weekly: TaskSummarizer.get_weekly_summary
GetWeeklyTasks(user_id) ==
    /\ \E all_tasks \in get_tasks(user_id, Some(PENDING)) :
          LET InBucket(b) ==
                  LET Test(i) == WeeklyBucket(tasks[i]) = b
                      rows == Filter(all_tasks, Test)
                  IN  [ i \in 1..Len(rows) |-> tasks[rows[i]].id ]
          IN  last' = [op |-> "weekly", user_id |-> user_id,
                       this_week |-> InBucket("this_week"),
                       next_week |-> InBucket("next_week"),
                       later |-> InBucket("later")]
    /\ UNCHANGED <<now, tasks, next_task_id, oauth_tokens, syncs, running, loops>>

\* the clock advances by a day
Tick ==
    /\ now < 24 * MaxTicks
    /\ now' = now + 24
    /\ last' = [op |-> "tick"]
    /\ UNCHANGED <<tasks, next_task_id, oauth_tokens, syncs, running, loops>>

-----------------------------------------------------------------------------
(* scheduler.py: the periodic sync *)

\* DataFetcher.get_users: query.all() has no ORDER BY, so the users in any order
get_users == Perms(Users)

\* a coroutine of the scheduler: where it is (pc), the users its pass has left
\* (the head is being synced), the sync it awaits, and the seconds it sleeps
Loop(pc, users, call, sleep) ==
    [pc |-> pc, users |-> users, call |-> call, sleep |-> sleep]

RECURSIVE PassRun(_, _)
\* the user loop of sync_all_users_tasks up to its next await or its end
PassRun(store, users) ==
    IF users = <<>>
    THEN { [done |-> TRUE, store |-> store, users |-> <<>>, call |-> <<>>] }
    ELSE UNION { IF r.done THEN PassRun(r.store, Tail(users))
                 ELSE { [done |-> FALSE, store |-> r.store, users |-> users,
                         call |-> <<r.call>>] }
               : r \in SyncRun(store, Head(users), SyncSources, <<>>, <<>>) }

\* sync_all_users_tasks resumed by the outcome of the fetch its sync awaits
PassResume(store, loop, outcome) ==
    UNION { IF r.done THEN PassRun(r.store, Tail(loop.users))
            ELSE { [done |-> FALSE, store |-> r.store, users |-> loop.users,
                    call |-> <<r.call>>] }
          : r \in SyncResume(store, loop.call[1], outcome) }

\* a faulty pass: once the scheduler is stopped it gives up the users it has left
AfterPassPreempted(pc, r) ==
    IF ~running \/ r.done
    THEN IF pc = "initial" THEN Loop("created", <<>>, <<>>, 0)
         ELSE Loop("sleeping", <<>>, <<>>, 3600)
    ELSE Loop(pc, r.users, r.call, 0)

\* Where the coroutine is after the step r of its pass.  The pass of
\* run_periodic_sync ("pass") is followed by sleep(sync_interval); the initial
\* pass of start_background_sync ("initial") by create_task(run_periodic_sync).
AfterPass(pc, r) ==
    IF ~r.done THEN Loop(pc, r.users, r.call, 0)
    ELSE IF pc = "initial" THEN Loop("created", <<>>, <<>>, 0)
    ELSE Loop("sleeping", <<>>, <<>>, 3600)

\* a faulty user loop: the exception of a user's sync leaves
\* sync_all_users_tasks, and run_periodic_sync sleeps a minute
UserSyncRaisedEndsPass(pc, store, users) ==
    { [store |-> store, loop |-> Loop("sleeping", <<>>, <<>>, 60)] }

\* the except clause of the user loop of sync_all_users_tasks: the error of
\* the sync of Head(users) is logged, and the loop goes on with the users after
UserSyncRaised(pc, store, users) ==
    { [store |-> r.store, loop |-> AfterPass(pc, r)] :
        r \in PassRun(store, Tail(users)) }

\* a faulty loop: after a pass that raised it sleeps the whole interval
WhileBodySleepsInterval(store) ==
    { [store |-> r.store, loop |-> AfterPass("pass", r), raised |-> FALSE] :
        r \in UNION { PassRun(store, users) : users \in get_users } }
    \cup { [store |-> store, loop |-> Loop("sleeping", <<>>, <<>>, 3600), raised |-> TRUE] }

\* the body of the while loop of run_periodic_sync from its top: the pass runs
\* to its first await, or get_users raises and the loop sleeps a minute
WhileBody(store) ==
    { [store |-> r.store, loop |-> AfterPass("pass", r), raised |-> FALSE] :
        r \in UNION { PassRun(store, users) : users \in get_users } }
    \cup { [store |-> store, loop |-> Loop("sleeping", <<>>, <<>>, 60), raised |-> TRUE] }

\* What a step of a scheduler coroutine leaves in "last" (history, the lines the
\* scheduler logs): the event, "begin" when a pass of the periodic loop begins,
\* "resume" when a pass runs on after a fetch, "exit" when the loop ends,
\* "initial" for the pass of start_background_sync; and a bit that flips each
\* time a pass of the periodic loop begins; "raise" is a pass that begins and
\* raises before its first await.
SchedulerStep(event) ==
    LET turn == IF last.op = "scheduler" THEN last.turn ELSE 0
    IN  [op |-> "scheduler", event |-> event,
         turn |-> IF event \in {"begin", "raise"} THEN 1 - turn ELSE turn]

\* lifespan: asyncio.create_task(scheduler.run_periodic_sync())
CreatePeriodicSync ==
    /\ BagCardinality(loops) < MaxLoops
    /\ loops' = loops (+) SetToBag({Loop("created", <<>>, <<>>, 0)})
    /\ last' = [op |-> "create_task"]
    /\ UNCHANGED <<now, tasks, next_task_id, oauth_tokens, syncs, running>>

\* start_background_sync: the initial pass starts at once
StartBackgroundSync ==
    /\ BagCardinality(loops) < MaxLoops
    /\ next_task_id <= MaxTaskId
    /\ \E users \in get_users : \E r \in PassRun(Store, users) :
          /\ tasks' = r.store.rows
          /\ next_task_id' = r.store.next_id
          /\ loops' = loops (+) SetToBag({AfterPass("initial", r)})
    /\ last' = SchedulerStep("initial")
    /\ UNCHANGED <<now, oauth_tokens, syncs, running>>

\* run_periodic_sync starts to run: it sets running and enters its loop
RunPeriodicSync(loop) ==
    /\ BagIn(loop, loops)
    /\ loop.pc = "created"
    /\ next_task_id <= MaxTaskId
    /\ running' = TRUE
    /\ \E w \in WhileBody(Store) :
          /\ tasks' = w.store.rows
          /\ next_task_id' = w.store.next_id
          /\ loops' = (loops (-) SetToBag({loop})) (+) SetToBag({w.loop})
          /\ last' = SchedulerStep(IF w.raised THEN "raise" ELSE "begin")
    /\ UNCHANGED <<now, oauth_tokens, syncs>>

\* the fetch a pass awaits ends, and the pass runs on
PassFetchReturn(loop) ==
    /\ BagIn(loop, loops)
    /\ loop.pc \in {"pass", "initial"}
    /\ \E outcome \in FetchOutcomes(Head(loop.call[1].sources), loop.call[1].user_id) :
       \E r \in PassResume(Store, loop, outcome) :
          /\ tasks' = r.store.rows
          /\ next_task_id' = r.store.next_id
          /\ loops' = (loops (-) SetToBag({loop})) (+) SetToBag({AfterPass(loop.pc, r)})
    /\ last' = SchedulerStep("resume")
    /\ UNCHANGED <<now, oauth_tokens, syncs, running>>

\* the last fetch of the sync a pass awaits ends, and the upsert loop of that
\* sync raises at one of its items; the pass catches it and goes on
PassSyncFails(loop) ==
    /\ BagIn(loop, loops)
    /\ loop.pc \in {"pass", "initial"}
    /\ LET call == loop.call[1]
       IN  /\ NextAwait(Store, call.user_id, Tail(call.sources)) = {<<>>}
           /\ \E outcome \in FetchOutcomes(Head(call.sources), call.user_id) :
                 LET all_tasks == IF outcome.raised THEN call.all_tasks
                                  ELSE call.all_tasks \o outcome.tasks
                 IN  \E fail_at \in 1..Len(all_tasks) :
                     \E db \in MergeInterrupted(Store, Store, call.user_id,
                                                all_tasks, fail_at) :
                     \E r \in UserSyncRaised(loop.pc, db, loop.users) :
                        /\ tasks' = r.store.rows
                        /\ next_task_id' = r.store.next_id
                        /\ loops' = (loops (-) SetToBag({loop})) (+) SetToBag({r.loop})
    /\ last' = SchedulerStep("user_error")
    /\ UNCHANGED <<now, oauth_tokens, syncs, running>>

\* asyncio.sleep returns: the while condition is tested again
Wake(loop) ==
    /\ BagIn(loop, loops)
    /\ loop.pc = "sleeping"
    /\ next_task_id <= MaxTaskId
    /\ IF running
       THEN \E w \in WhileBody(Store) :
               /\ tasks' = w.store.rows
               /\ next_task_id' = w.store.next_id
               /\ loops' = (loops (-) SetToBag({loop})) (+) SetToBag({w.loop})
               /\ last' = SchedulerStep(IF w.raised THEN "raise" ELSE "begin")
       ELSE /\ loops' = loops (-) SetToBag({loop})
            /\ last' = SchedulerStep("exit")
            /\ UNCHANGED <<tasks, next_task_id>>
    /\ UNCHANGED <<now, oauth_tokens, syncs, running>>

\* TaskScheduler.stop
Stop ==
    /\ running' = FALSE
    /\ last' = [op |-> "stop"]
    /\ UNCHANGED <<now, tasks, next_task_id, oauth_tokens, syncs, loops>>

-----------------------------------------------------------------------------
(* the specifications *)

\* the sources a sync request names, or none
Scopes == {None} \cup { Some(SyncSources[i]) : i \in 1..Len(SyncSources) }

\* a row of oauth_tokens
Token(user_id, source_type, expires_at) ==
    [user_id |-> user_id, source_type |-> source_type, access_token |-> "token",
     refresh_token |-> None, expires_at |-> expires_at]

\* the state after create_db, but for the tokens the users have stored
InitWith(tokens) ==
    /\ now = 0
    /\ tasks = <<>>
    /\ next_task_id = 1
    /\ oauth_tokens = tokens
    /\ syncs = EmptyBag
    /\ running = FALSE
    /\ loops = EmptyBag
    /\ last = [op |-> "init"]

\* user 1 has connected Google Calendar with a token that expires at 12
Init == InitWith({Token(1, GOOGLE_CALENDAR, Some(12))})

\* user 1 connects Canvas; clients sync, edit statuses and read the summaries
Next ==
    \/ AddCanvasToken(1, "token")
    \/ \E user_id \in Users, scope \in Scopes : SyncStart(user_id, scope)
    \/ \E call \in BagToSet(syncs) : FetchReturn(call)
    \/ \E task_id \in 1..next_task_id, user_id \in Users, status \in TaskStatus :
          UpdateTaskStatus(task_id, user_id, status)
    \/ \E user_id \in Users : GetTasks(user_id)
    \/ \E user_id \in Users : GetTasksPlainSummary(user_id)
    \/ \E user_id \in Users : GetWeeklyTasks(user_id)
    \/ Tick

Spec == Init /\ [][Next]_vars

\* nobody has connected a source
InitSummary == InitWith({})

\* user 1 keeps manual tasks; the summaries are read
NextSummary ==
    \/ \E task \in ManualTasks : CreateManualTask(1, task)
    \/ \E task_id \in 1..next_task_id, user_id \in Users, status \in TaskStatus :
          UpdateTaskStatus(task_id, user_id, status)
    \/ \E user_id \in Users : GetTasks(user_id)
    \/ \E user_id \in Users : GetTasksPlainSummary(user_id)
    \/ \E user_id \in Users : GetWeeklyTasks(user_id)
    \/ Tick

SpecSummary == InitSummary /\ [][NextSummary]_vars

\* user 1 has connected Canvas, user 2 Handshake
InitConc == InitWith({Token(1, CANVAS, None), Token(2, HANDSHAKE, None)})

\* on-demand syncs while the scheduler is started and stopped
NextConc ==
    \/ \E user_id \in Users, scope \in Scopes : SyncStart(user_id, scope)
    \/ \E call \in BagToSet(syncs) : FetchReturn(call)
    \/ CreatePeriodicSync
    \/ StartBackgroundSync
    \/ \E loop \in BagToSet(loops) : RunPeriodicSync(loop)
    \/ \E loop \in BagToSet(loops) : PassFetchReturn(loop)
    \/ \E loop \in BagToSet(loops) : Wake(loop)
    \/ Stop

SpecConc == InitConc /\ [][NextConc]_vars

\* user 1 has connected Canvas
InitStatus == InitWith({Token(1, CANVAS, None)})

\* the application as lifespan wires it: one periodic sync, next to the
\* on-demand Canvas sync, the status updates and the summaries of user 1
NextStatus ==
    \/ SyncStart(1, Some(CANVAS))
    \/ \E call \in BagToSet(syncs) : FetchReturn(call)
    \/ loops = EmptyBag /\ CreatePeriodicSync
    \/ \E loop \in BagToSet(loops) : RunPeriodicSync(loop)
    \/ \E loop \in BagToSet(loops) : PassFetchReturn(loop)
    \/ \E loop \in BagToSet(loops) : Wake(loop)
    \/ Stop
    \/ \E task_id \in 1..next_task_id, status \in TaskStatus :
          UpdateTaskStatus(task_id, 1, status)
    \/ GetTasks(1)
    \/ GetTasksPlainSummary(1)
    \/ GetWeeklyTasks(1)
    \/ Tick

SpecStatus == InitStatus /\ [][NextStatus]_vars

\* user 1 has connected Outlook
InitManual == InitWith({Token(1, OUTLOOK, None)})

\* user 1 keeps one manual task and syncs Outlook, whose events may lack an id
NextManual ==
    \/ /\ \A i \in 1..Len(tasks) : tasks[i].source_type # MANUAL
       /\ \E task \in ManualTasks : CreateManualTask(1, task)
    \/ SyncStart(1, Some(OUTLOOK))
    \/ \E call \in BagToSet(syncs) : FetchReturn(call)

SpecManual == InitManual /\ [][NextManual]_vars

\* both users have connected one source
InitSched == InitWith({Token(1, CANVAS, None), Token(2, HANDSHAKE, None)})

\* the scheduler as lifespan runs it: one periodic loop, started and stopped
NextSched ==
    \/ loops = EmptyBag /\ CreatePeriodicSync
    \/ \E loop \in BagToSet(loops) : RunPeriodicSync(loop)
    \/ \E loop \in BagToSet(loops) : PassFetchReturn(loop)
    \/ \E loop \in BagToSet(loops) : Wake(loop)
    \/ Stop

SpecSched == InitSched /\ [][NextSched]_vars

\* The event loop runs a coroutine that is ready, a sleep ends, and an HTTP call
\* of a connector returns or raises (httpx times out).
SpecSchedFair ==
    /\ SpecSched
    /\ WF_vars(\E loop \in BagToSet(loops) : RunPeriodicSync(loop))
    /\ WF_vars(\E loop \in BagToSet(loops) : PassFetchReturn(loop))
    /\ WF_vars(\E loop \in BagToSet(loops) : Wake(loop))

\* the scheduler, with syncs of users that fail in their merge
NextPass ==
    \/ NextSched
    \/ \E loop \in BagToSet(loops) : PassSyncFails(loop)

SpecPass == InitSched /\ [][NextPass]_vars

\* The event loop of SpecSchedFair; the awaited fetch ends whether or not the
\* merge after it fails.
SpecPassFair ==
    /\ SpecPass
    /\ WF_vars(\E loop \in BagToSet(loops) : RunPeriodicSync(loop))
    /\ WF_vars(\E loop \in BagToSet(loops) : PassFetchReturn(loop))
    /\ WF_vars(\E loop \in BagToSet(loops) : Wake(loop))

\* no user has connected a source
InitWeekly == InitWith({})

\* user 1 creates manual tasks due around the week boundaries and reads the
\* weekly summary, today and a day later
NextWeekly ==
    \/ \E task \in WeekBoundaryTasks : CreateManualTask(1, task)
    \/ GetWeeklyTasks(1)
    \/ Tick

SpecWeekly == InitWeekly /\ [][NextWeekly]_vars

\* the hours after the origin at which the raw items of the connector checks
\* are due or start
RawHours == {10, 23, 24, 34, 40, 47, 48, 64, 71, 72, 167, 168, 191, 192}

\* raw items the normalizers are called with: assignments with and without
\* due_at, calendar events with and without start
RawItems(source) ==
    CASE source = CANVAS ->
           { [id |-> 42, name |-> "HW1", due_at |-> due_at] :
               due_at \in {None} \cup { Some(h) : h \in RawHours } }
      [] source = OUTLOOK ->
           { [id |-> "e1", subject |-> "Standup"] }
           \cup { [id |-> "e1", subject |-> "Standup",
                   start |-> [dateTime |-> h], end |-> [dateTime |-> h + 1]] :
                    h \in RawHours }
      [] source = GOOGLE_CALENDAR ->
           { [id |-> "g1", summary |-> "Lab"] }
           \cup { [id |-> "g1", summary |-> "Lab",
                   start |-> [dateTime |-> h], end |-> [dateTime |-> h + 1]] :
                    h \in RawHours }

\* normalize_task / normalize_calendar_event of the connector of the source
Normalize(source, raw_data) ==
    /\ last' = [op |-> "normalize", source |-> source, raw_data |-> raw_data,
                task |-> CASE source = CANVAS -> CanvasNormalize(raw_data, CANVAS)
                           [] source = OUTLOOK -> OutlookNormalizeEvent(raw_data, OUTLOOK)
                           [] source = GOOGLE_CALENDAR ->
                                  GoogleNormalize(raw_data, GOOGLE_CALENDAR)]
    /\ UNCHANGED <<now, tasks, next_task_id, oauth_tokens, syncs, running, loops>>

\* what the services can answer to the fetch_tasks the connector checks call:
\* Canvas lists two courses, and an assignment may carry a malformed due_at
FetchInputs(source) ==
    IF source = CANVAS
    THEN { [courses |-> c, assignments |-> a] :
             c \in Responses({<<CanvasCourse, CanvasCourse2>>}),
             a \in [{CanvasCourse.id, CanvasCourse2.id} ->
                       Responses(SeqsUpTo(CanvasAssignments \cup MalformedAssignments,
                                          MaxBatch))] }
    ELSE Upstream(source)

\* integration.fetch_tasks(user_id, db) against the answers `up`
Fetch(source, user_id, up) ==
    /\ last' = [op |-> "fetch_tasks", source |-> source, user_id |-> user_id,
                up |-> up, outcome |-> FetchTasks(source, user_id, up)]
    /\ UNCHANGED <<now, tasks, next_task_id, oauth_tokens, syncs, running, loops>>

\* no user has connected a source
InitConnectors == InitWith({})

\* the connectors on their own: their normalizers on raw items and their
\* fetch_tasks on what the services answer, today and a day later
NextConnectors ==
    \/ \E source \in {CANVAS, OUTLOOK, GOOGLE_CALENDAR} :
          \E raw_data \in RawItems(source) : Normalize(source, raw_data)
    \/ \E i \in 1..Len(SyncSources) :
          \E up \in FetchInputs(SyncSources[i]) : Fetch(SyncSources[i], 1, up)
    \/ Tick

SpecConnectors == InitConnectors /\ [][NextConnectors]_vars

\* user 1 syncs Canvas, and the merge of a sync may fail part-way
NextMerge ==
    \/ SyncStart(1, Some(CANVAS))
    \/ \E call \in BagToSet(syncs) : FetchReturn(call)
    \/ \E call \in BagToSet(syncs) : SyncFails(call)
    \/ Tick

SpecMerge == InitStatus /\ [][NextMerge]_vars

\* user 1 connects Canvas and Handshake, over and over, by authorization
\* callbacks and by adding a Canvas token by hand
NextAuth ==
    \/ \E source \in {"canvas", "handshake"}, token_data \in TokenData :
          OAuthCallback(source, 1, token_data)
    \/ \E access_token \in {"token", "token3"} : AddCanvasToken(1, access_token)
    \/ \E call \in BagToSet(syncs) : FetchReturn(call)

SpecAuth == InitWith({}) /\ [][NextAuth]_vars

\* user 1 keeps manual tasks and reads the summaries as time passes; nobody
\* edits a status
NextOverdue ==
    \/ \E task \in ManualTasks : CreateManualTask(1, task)
    \/ GetTasks(1)
    \/ GetTasksPlainSummary(1)
    \/ Tick

SpecOverdue == InitSummary /\ [][NextOverdue]_vars

\* both users sync and read their summaries, and each of them reads, edits,
\* re-statuses and deletes tasks by id, their own and the other's
NextOwners ==
    \/ \E user_id \in Users : SyncStart(user_id, None)
    \/ \E call \in BagToSet(syncs) : FetchReturn(call)
    \/ \E user_id \in Users : GetTasks(user_id)
    \/ \E task_id \in 1..MaxOwned, user_id \in Users : GetTask(task_id, user_id)
    \/ \E task_id \in 1..MaxOwned, user_id \in Users, status \in TaskStatus :
          PutTaskStatus(task_id, user_id, status)
    \/ \E task_id \in 1..MaxOwned, user_id \in Users, task_update \in TaskUpdates :
          PutTask(task_id, user_id, task_update)
    \/ \E task_id \in 1..MaxOwned, user_id \in Users : DeleteTask(task_id, user_id)

SpecOwners == InitConc /\ [][NextOwners]_vars

\* user 1 syncs Canvas and reads the summary as time passes, while Canvas
\* moves the deadline of an assignment; nobody edits a status
NextReschedule ==
    \/ SyncStart(1, Some(CANVAS))
    \/ \E call \in BagToSet(syncs) : FetchReturn(call)
    \/ GetTasks(1)
    \/ Tick

SpecReschedule == InitStatus /\ [][NextReschedule]_vars

-----------------------------------------------------------------------------
(* Properties of reconciliation: identity, idempotence, status, failures *)

\* the rows of tasks that carry the identity key of the fetched item
RowsOf(user_id, task_data) ==
    { i \in 1..Len(tasks) : Matches(tasks[i], user_id, task_data) }

\* C1: in every reachable state no two rows of tasks share user_id, source_type
\* and a non-null source_id, whatever scheduler passes and on-demand syncs have
\* interleaved, and also when one fetched batch repeats a source_id.
C1_IdentityUnique ==
    \A i, j \in 1..Len(tasks) :
        (i # j /\ tasks[i].source_id # None) =>
            ~(/\ tasks[i].user_id = tasks[j].user_id
              /\ tasks[i].source_type = tasks[j].source_type
              /\ tasks[i].source_id = tasks[j].source_id)

\* an on-demand sync has reconciled a batch that repeats a source_id while a
\* scheduler pass is syncing the same user
C1_Witness ==
    /\ last.op = "sync"
    /\ \E j, k \in 1..Len(last.batch) :
          j # k /\ last.batch[j].source_id = last.batch[k].source_id
    /\ \E loop \in BagToSet(loops) :
          loop.pc = "pass" /\ loop.call[1].user_id = last.user_id
    /\ \E i \in 1..Len(tasks) : tasks[i].user_id = last.user_id

\* C2: a sync of a user that follows a sync of the same user with the same
\* fetched batch, nothing in between, leaves the tasks table as it was and
\* inserts no row; after a single-item batch the item has exactly one row.
C2_Idempotent ==
    [][(last'.op = "sync" /\ last'.rerun) =>
          /\ tasks' = tasks
          /\ next_task_id' = next_task_id
          /\ Len(last'.batch) = 1 =>
                Cardinality({ i \in 1..Len(tasks') :
                    Matches(tasks'[i], last'.user_id, last'.batch[1]) }) = 1]_vars

\* the same single-item batch has been synced twice in a row
C2_Witness ==
    /\ last.op = "sync"
    /\ last.rerun
    /\ Len(last.batch) = 1
    /\ RowsOf(last.user_id, last.batch[1]) # {}

\* what every step of a sync shows: a fetch starts or ends, or the sync returns
SyncObserved ==
    syncs' # syncs \/ last'.op = "sync"

\* a step of a sync: on demand, after a token was stored, or resumed by a fetch
SyncStep ==
    /\ SyncObserved
    /\ \/ AddCanvasToken(1, "token")
       \/ \E user_id \in Users, scope \in Scopes : SyncStart(user_id, scope)
       \/ \E call \in BagToSet(syncs) : FetchReturn(call)

\* C3: no step of a sync changes the status of a row that is complete, also
\* when it rewrites the other fields of the row.
C3_CompleteStays ==
    [][SyncStep =>
          \A i \in 1..Len(tasks) :
              tasks[i].status = COMPLETE => tasks'[i].status = COMPLETE]_vars

\* a sync has just written two different titles, one after the other, to a row
\* that is complete
C3_Witness ==
    /\ last.op = "sync"
    /\ \E i \in 1..Len(tasks) : \E j, k \in 1..Len(last.batch) :
          /\ tasks[i].status = COMPLETE
          /\ Matches(tasks[i], last.user_id, last.batch[j])
          /\ Matches(tasks[i], last.user_id, last.batch[k])
          /\ last.batch[j].title # last.batch[k].title

\* C4: a step that is not a user's status update (a sync, a scheduler pass, a
\* summary, a plain or a weekly summary) leaves every overdue or complete row
\* its status, and takes a pending row to nothing but overdue.
C4_AutomatedStatus ==
    [][\/ \E task_id \in 1..next_task_id, user_id \in Users, status \in TaskStatus :
             UpdateTaskStatus(task_id, user_id, status)
       \/ \A i \in 1..Len(tasks) :
             /\ tasks[i].status \in {OVERDUE, COMPLETE} =>
                   tasks'[i].status = tasks[i].status
             /\ tasks[i].status = PENDING =>
                   tasks'[i].status \in {PENDING, OVERDUE}]_vars

\* a summary has returned and has left a complete row that is past due complete
C4_Witness ==
    /\ last.op = "summarize"
    /\ \E i \in 1..Len(tasks) :
          /\ tasks[i].user_id = last.user_id
          /\ tasks[i].status = COMPLETE
          /\ tasks[i].due_date # None /\ Val(tasks[i].due_date) < now

\* the tasks of the fetches of a sync that did not raise, in the order fetched
Succeeded(fetched) ==
    Concat([ i \in 1..Len(fetched) |->
               IF fetched[i].raised THEN <<>> ELSE fetched[i].tasks ])

\* C5: when a fetch of a sync raised, the sync has still returned, the count it
\* returned is the number of tasks the other fetches returned, and each of
\* those tasks has its row, with the fields of the last fetched item of its key.
C5_PartialFailure ==
    (last.op = "sync" /\ \E i \in 1..Len(last.fetched) : last.fetched[i].raised) =>
        LET fetched == Succeeded(last.fetched)
        IN  /\ last.count = Len(fetched)
            /\ \A k \in 1..Len(fetched) :
                  /\ RowsOf(last.user_id, fetched[k]) # {}
                  /\ (\A m \in (k + 1)..Len(fetched) :
                         fetched[m].source_id # fetched[k].source_id)
                     => \A i \in RowsOf(last.user_id, fetched[k]) :
                           /\ tasks[i].title = fetched[k].title
                           /\ tasks[i].due_date = fetched[k].due_date
                           /\ tasks[i].priority = fetched[k].priority

\* a sync has returned after the fetch of one source raised and the fetch of
\* another returned tasks
C5_Witness ==
    /\ last.op = "sync"
    /\ \E i, j \in 1..Len(last.fetched) :
          /\ last.fetched[i].raised
          /\ ~last.fetched[j].raised
          /\ last.fetched[j].tasks # <<>>
    /\ last.count > 0

-----------------------------------------------------------------------------
(* Properties of concurrency: syncs in flight and scheduler passes *)

\* how many syncs (on demand and of scheduler passes) are suspended in the
\* fetch of the source for the user
Fetching(user_id, source) ==
    LET Is(call) == call.user_id = user_id /\ Head(call.sources) = source
        on_demand == { call \in BagToSet(syncs) : Is(call) }
        passes == { loop \in BagToSet(loops) : loop.call # <<>> /\ Is(loop.call[1]) }
    IN  BagCardinality([ call \in on_demand |-> syncs[call] ])
        + BagCardinality([ loop \in passes |-> loops[loop] ])

\* C6: at most one sync is in flight per user and source: no two syncs of a
\* user, started by a scheduler pass or on demand, are fetching the same source
\* at the same time.
C6_OneSyncPerScope ==
    \A user_id \in Users : \A i \in 1..Len(SyncSources) :
        Fetching(user_id, SyncSources[i]) <= 1

\* C7: the scheduler never has two all-users passes in progress at once,
\* whatever run_periodic_sync, start_background_sync and stop calls are made.
C7_OnePass ==
    BagCardinality([ loop \in { l \in BagToSet(loops) : l.pc \in {"pass", "initial"} }
                       |-> loops[loop] ]) <= 1

-----------------------------------------------------------------------------
(* Properties of the summary *)

\* the positions of the id in ordered_records
Positions(ordered_records, id) ==
    { k \in 1..Len(ordered_records) : ordered_records[k] = id }

\* C8: a summary of a user makes every row of the user that is pending and due
\* before now overdue, and returns each of them in ordered_records before
\* every row whose due_date is in the future.
C8_OverdueFirst ==
    [][\A user_id \in Users : GetTasks(user_id) =>
          \A i \in 1..Len(tasks) :
              (/\ tasks[i].user_id = user_id
               /\ tasks[i].status = PENDING
               /\ tasks[i].due_date # None /\ Val(tasks[i].due_date) < now)
              => /\ tasks'[i].status = OVERDUE
                 /\ ~last'.raised
                 /\ Positions(last'.tasks, tasks[i].id) # {}
                 /\ \A j \in 1..Len(tasks) :
                       (tasks[j].due_date # None /\ Val(tasks[j].due_date) > now)
                       => \A k \in Positions(last'.tasks, tasks[i].id),
                             m \in Positions(last'.tasks, tasks[j].id) : k < m]_vars

\* C9: ordered_records of a summary lists each row at most once, lists every
\* pending row of the user, and lists only rows of the user that are pending
\* or overdue (so no complete row).
C9_OrderedRecordsSet ==
    (last.op = "summarize" /\ ~last.raised) =>
        /\ \A k, m \in 1..Len(last.tasks) : last.tasks[k] = last.tasks[m] => k = m
        /\ \A i \in 1..Len(tasks) :
              (tasks[i].user_id = last.user_id /\ tasks[i].status = PENDING)
              => Positions(last.tasks, tasks[i].id) # {}
        /\ \A k \in 1..Len(last.tasks) : \E i \in 1..Len(tasks) :
              /\ tasks[i].id = last.tasks[k]
              /\ tasks[i].user_id = last.user_id
              /\ tasks[i].status \in {PENDING, OVERDUE}

\* C10: every row of the user that is overdue when a summary returns is in
\* ordered_records, on the call that made it overdue and on every later call.
C10_OverdueListed ==
    (last.op = "summarize" /\ ~last.raised) =>
        \A i \in 1..Len(tasks) :
            (tasks[i].user_id = last.user_id /\ tasks[i].status = OVERDUE)
            => Positions(last.tasks, tasks[i].id) # {}

\* the row of tasks with the id
RowById(id) ==
    tasks[CHOOSE i \in 1..Len(tasks) : tasks[i].id = id]

\* C11: ordered_records is sorted by the composite key: an overdue row is
\* never after a pending row; rows of one status that both have a due_date are
\* in ascending due_date order; rows of one status and one due_date are in
\* descending priority order.
C11_SortedByKey ==
    (last.op = "summarize" /\ ~last.raised) =>
        \A k, m \in 1..Len(last.tasks) :
            k < m =>
                LET a == RowById(last.tasks[k])
                    b == RowById(last.tasks[m])
                IN  /\ ~(a.status = PENDING /\ b.status = OVERDUE)
                    /\ (a.status = b.status /\ a.due_date # None /\ b.due_date # None)
                       => Val(a.due_date) <= Val(b.due_date)
                    /\ (a.status = b.status /\ a.due_date = b.due_date)
                       => a.priority >= b.priority

\* a summary lists an overdue row, then two pending rows of one due_date whose
\* priorities differ
C11_Witness ==
    /\ last.op = "summarize"
    /\ ~last.raised
    /\ \E k, m, n \in 1..Len(last.tasks) :
          /\ k < m /\ m < n
          /\ RowById(last.tasks[k]).status = OVERDUE
          /\ RowById(last.tasks[m]).status = PENDING
          /\ RowById(last.tasks[n]).status = PENDING
          /\ RowById(last.tasks[m]).due_date = RowById(last.tasks[n]).due_date
          /\ RowById(last.tasks[m]).priority > RowById(last.tasks[n]).priority

\* C12: whatever rows of the user mix rows with and without a due_date, a
\* summary returns, and in the order it returns every row without a due_date
\* comes after every row of its status that has one.
C12_UndatedLast ==
    last.op = "summarize" =>
        /\ ~last.raised
        /\ \A k, m \in 1..Len(last.tasks) :
              LET a == RowById(last.tasks[k])
                  b == RowById(last.tasks[m])
              IN  (a.status = b.status /\ a.due_date # None /\ b.due_date = None)
                  => k < m

\* C13: rows of ordered_records that tie on status, due_date and priority are
\* in ascending id order, so that two summaries of the same rows at the same
\* time return the same sequence.
C13_TiesById ==
    (last.op = "summarize" /\ ~last.raised) =>
        \A k, m \in 1..Len(last.tasks) :
            LET a == RowById(last.tasks[k])
                b == RowById(last.tasks[m])
            IN  (/\ k < m
                 /\ a.status = b.status
                 /\ a.due_date = b.due_date
                 /\ a.priority = b.priority)
                => a.id <= b.id

\* C14: the high-priority count of a summary is the number of pending rows of
\* the user whose due_date is in [now, now + 48]; overdue and complete rows,
\* rows without a due_date and rows due later are not counted.
C14_HighPriorityCount ==
    (last.op = "summarize" /\ ~last.raised) =>
        last.high_priority_tasks =
            Cardinality({ i \in 1..Len(tasks) :
                /\ tasks[i].user_id = last.user_id
                /\ tasks[i].status = PENDING
                /\ tasks[i].due_date # None
                /\ now <= Val(tasks[i].due_date)
                /\ Val(tasks[i].due_date) <= now + 48 })

\* a summary has counted a row due exactly 48 hours from now, next to an
\* overdue row, a complete row in the interval, and a row without a due_date
\* that it has not counted
C14_Witness ==
    /\ last.op = "summarize"
    /\ ~last.raised
    /\ last.high_priority_tasks = 1
    /\ \E i, j, k \in 1..Len(tasks) :
          /\ tasks[i].user_id = last.user_id
          /\ tasks[i].status = PENDING
          /\ tasks[i].due_date = Some(now + 48)
          /\ tasks[j].user_id = last.user_id
          /\ tasks[j].status = COMPLETE
          /\ tasks[j].due_date = Some(now + 48)
          /\ tasks[k].user_id = last.user_id
          /\ tasks[k].status = OVERDUE

\* the user has no row in tasks
NoRecords(user_id) ==
    \A i \in 1..Len(tasks) : tasks[i].user_id # user_id

\* C15: for a user with no row, a summary returns zero for the total, the
\* pending, the overdue and the high-priority count, no per-source count and
\* no ordered record, and the plain summary is the all-caught-up sentence.
C15_ZeroRecords ==
    /\ (last.op = "summarize" /\ NoRecords(last.user_id)) =>
          /\ ~last.raised
          /\ last.total_tasks = 0
          /\ last.pending_tasks = 0
          /\ last.overdue_tasks = 0
          /\ last.high_priority_tasks = 0
          /\ DOMAIN last.tasks_by_source = {}
          /\ last.tasks = <<>>
    /\ (last.op = "plain" /\ NoRecords(last.user_id)) =>
          /\ ~last.raised
          /\ last.parts = <<>>
          /\ last.summary = "No pending tasks. You're all caught up!"

\* the plain summary of a user with no row has been returned while another
\* user has rows
C15_Witness ==
    /\ last.op = "plain"
    /\ NoRecords(last.user_id)
    /\ tasks # <<>>
    /\ last.summary = "No pending tasks. You're all caught up!"

\* C16: the plain summary has a clause for a count exactly when the count is
\* not zero, in the order overdue, due within 48 hours, pending total,
\* per-source breakdown, each with its count; it is the all-caught-up sentence
\* exactly when every count is zero.
C16_PlainClauses ==
    (last.op = "plain" /\ ~last.raised) =>
        LET c == last.counts
            expected ==
                (IF c.overdue_tasks # 0 THEN <<"overdue">> ELSE <<>>)
                \o (IF c.high_priority_tasks # 0 THEN <<"due within 48 hours">> ELSE <<>>)
                \o (IF c.pending_tasks # 0 THEN <<"pending total">> ELSE <<>>)
                \o (IF DOMAIN c.tasks_by_source # {} THEN <<"Tasks">> ELSE <<>>)
        IN  /\ [ i \in 1..Len(last.parts) |-> last.parts[i][1] ] = expected
            /\ \A i \in 1..Len(last.parts) :
                  /\ last.parts[i][1] = "overdue" => last.parts[i][2] = c.overdue_tasks
                  /\ last.parts[i][1] = "due within 48 hours"
                     => last.parts[i][2] = c.high_priority_tasks
                  /\ last.parts[i][1] = "pending total" => last.parts[i][2] = c.pending_tasks
                  /\ last.parts[i][1] = "Tasks"
                     => /\ Len(last.parts[i][2]) = Cardinality(DOMAIN c.tasks_by_source)
                        /\ \A k \in 1..Len(last.parts[i][2]) :
                              \E src \in DOMAIN c.tasks_by_source :
                                 last.parts[i][2][k] = <<c.tasks_by_source[src], SourceName(src)>>
            /\ (last.summary = "No pending tasks. You're all caught up!")
               <=> (/\ c.overdue_tasks = 0
                    /\ c.high_priority_tasks = 0
                    /\ c.pending_tasks = 0
                    /\ DOMAIN c.tasks_by_source = {})

\* a plain summary tells of an overdue task and of the pending total, and has
\* no clause for the tasks due within 48 hours, of which there is none
C16_Witness ==
    /\ last.op = "plain"
    /\ ~last.raised
    /\ last.counts.overdue_tasks > 0
    /\ last.counts.high_priority_tasks = 0
    /\ last.counts.pending_tasks > 0
    /\ Len(last.parts) = 3

\* whether the fetched items a and b have the same identity key
SameKey(a, b) ==
    a.source_type = b.source_type /\ a.source_id = b.source_id

\* C17: a step of a sync leaves every existing row its status, user_id, id and
\* identity key, and inserts rows as pending; when the sync has returned, every
\* fetched item has a row of its key, and the title, description, due_date,
\* start_date, priority and metadata of the row are those of the item (of the
\* last item of the key, when the batch repeats it).
C17_UpsertFrame ==
    [][SyncStep =>
          /\ Len(tasks') >= Len(tasks)
          /\ \A i \in 1..Len(tasks) :
                /\ tasks'[i].status = tasks[i].status
                /\ tasks'[i].user_id = tasks[i].user_id
                /\ tasks'[i].id = tasks[i].id
                /\ tasks'[i].source_type = tasks[i].source_type
                /\ tasks'[i].source_id = tasks[i].source_id
          /\ \A i \in (Len(tasks) + 1)..Len(tasks') : tasks'[i].status = PENDING
          /\ last'.op = "sync" =>
                \A k \in 1..Len(last'.batch) :
                    LET item == last'.batch[k]
                        rows == { i \in 1..Len(tasks') :
                                    Matches(tasks'[i], last'.user_id, item) }
                    IN  /\ rows # {}
                        /\ (\A m \in (k + 1)..Len(last'.batch) :
                               ~SameKey(last'.batch[m], item))
                           => \A i \in rows :
                                 /\ tasks'[i].title = item.title
                                 /\ tasks'[i].description = Get(item, "description", None)
                                 /\ tasks'[i].due_date = Get(item, "due_date", None)
                                 /\ tasks'[i].start_date = Get(item, "start_date", None)
                                 /\ tasks'[i].priority = Get(item, "priority", 0)
                                 /\ tasks'[i].task_metadata = Get(item, "task_metadata", None)]_vars

\* a sync has returned that inserted a row and rewrote a row that was complete
C17_Witness ==
    /\ last.op = "sync"
    /\ last.inserted >= 1
    /\ \E i \in 1..Len(tasks) : \E k \in 1..Len(last.batch) :
          /\ tasks[i].status = COMPLETE
          /\ Matches(tasks[i], last.user_id, last.batch[k])

\* the items of a batch that carry no source_id
NullItems(batch) ==
    { k \in 1..Len(batch) : batch[k].source_id = None }

\* C18: the step on which a sync returns leaves every row without a source_id
\* as it was, and inserts one row without a source_id for each fetched item
\* without one.
C18_NullIdInserted ==
    [][(SyncStep /\ last'.op = "sync") =>
          /\ \A i \in 1..Len(tasks) :
                tasks[i].source_id = None => tasks'[i] = tasks[i]
          /\ Cardinality({ i \in (Len(tasks) + 1)..Len(tasks') :
                             tasks'[i].source_id = None })
                = Cardinality(NullItems(last'.batch))]_vars

\* C19: no step of a user who keeps a manual task and syncs Outlook, the steps
\* of the syncs among them, changes any field of a manual row or removes it.
C19_ManualUntouched ==
    [][/\ Len(tasks') >= Len(tasks)
       /\ \A i \in 1..Len(tasks) :
             tasks[i].source_type = MANUAL => tasks'[i] = tasks[i]]_vars

\* a sync that fetched an item without a source_id has returned, and a manual
\* row was there before it returned
C19_Witness ==
    /\ last.op = "sync"
    /\ NullItems(last.batch) # {}
    /\ \E i \in 1..Len(tasks) :
          /\ tasks[i].source_type = MANUAL
          /\ tasks[i].id < next_task_id - last.inserted

\* the user holds a credential of the source that has no expiry in the past
HasCredential(tokens, user_id, source) ==
    \E t \in tokens :
        /\ t.user_id = user_id
        /\ t.source_type = source
        /\ (t.expires_at = None \/ Val(t.expires_at) >= now)

\* What a step of a sync that goes through `sources` after `n` fetches must do:
\* it awaits the connector of the first source with a credential and changes no
\* row; when no source has one it returns, having invoked `n` connectors and
\* counting their tasks only, and the rows it wrote are of the fetched sources.
SkipsThenSyncs(tokens, user_id, sources, n) ==
    LET synced == SelectSeq(sources, LAMBDA s : HasCredential(tokens, user_id, s))
    IN  IF synced # <<>>
        THEN /\ tasks' = tasks
             /\ \E c \in BagToSet(syncs') :
                   /\ c.user_id = user_id
                   /\ Head(c.sources) = Head(synced)
                   /\ Len(c.fetched) = n
        ELSE /\ last'.op = "sync"
             /\ last'.user_id = user_id
             /\ BagCardinality(syncs') <= BagCardinality(syncs)
             /\ Len(last'.fetched) = n
             /\ last'.count = Len(Succeeded(last'.fetched))
             /\ \A i \in 1..Len(tasks') :
                   (i > Len(tasks) \/ tasks'[i] # tasks[i]) =>
                       \E k \in 1..n : /\ last'.fetched[k].source = tasks'[i].source_type
                                        /\ ~last'.fetched[k].raised

\* C20: every step of a sync passes over the sources for which the user has no
\* credential or an expired one: it invokes no connector of theirs, writes no
\* row of theirs, counts nothing for them, and goes on to the next source that
\* has a credential.
C20_SkipsUnusable ==
    [][SyncObserved =>
          /\ \A user_id \in Users, scope \in Scopes :
                SyncStart(user_id, scope) =>
                    SkipsThenSyncs(oauth_tokens, user_id,
                                   IF scope = None THEN SyncSources ELSE <<Val(scope)>>, 0)
          /\ \A call \in BagToSet(syncs) :
                FetchReturn(call) =>
                    SkipsThenSyncs(oauth_tokens, call.user_id, Tail(call.sources),
                                   Len(call.fetched) + 1)
          /\ AddCanvasToken(1, "token") =>
                SkipsThenSyncs(oauth_tokens', 1, <<CANVAS>>, 0)]_vars

\* a sync of every source of a user without Canvas and Outlook credentials has
\* passed over the two and awaits Google Calendar
C20_Witness ==
    \E c \in BagToSet(syncs) :
        /\ c.sources = <<GOOGLE_CALENDAR, HANDSHAKE>>
        /\ c.fetched = <<>>
        /\ ~HasCredential(oauth_tokens, c.user_id, CANVAS)
        /\ ~HasCredential(oauth_tokens, c.user_id, OUTLOOK)

\* C21: the count a sync returns is the number of items its fetches that did not
\* raise returned, repeated keys and items that only rewrite a row included.
C21_CountIsBatchSize ==
    last.op = "sync" =>
        /\ last.count = Len(Succeeded(last.fetched))
        /\ last.count = Len(last.batch)

\* a sync has returned a count of one or more after rewriting rows with the
\* batch of the sync before it and inserting none
C21_Witness ==
    /\ last.op = "sync"
    /\ last.rerun
    /\ last.inserted = 0
    /\ last.count >= 1

\* C22: the scheduler step that follows a stop call, no start in between, does
\* not begin a pass of the periodic loop.
C22_NoPassAfterStop ==
    [][last.op = "stop" =>
          ~(last'.op = "scheduler" /\ last'.event \in {"begin", "raise"})]_vars

\* C23: a pass that is in progress while the scheduler is stopped goes on: the
\* step that ends the fetch of one user leaves the loop in the pass, at the
\* next user, or asleep for the interval when no user is left; and once stop
\* was called during a pass the loop eventually exits.
C23_StopAfterPass ==
    /\ [][(~running /\ last'.op = "scheduler" /\ last'.event = "resume") =>
             \A loop \in BagToSet(loops) :
                 loop.pc = "pass" =>
                     \E after \in BagToSet(loops') :
                         IF Tail(loop.users) # <<>>
                         THEN after.pc = "pass" /\ after.users = Tail(loop.users)
                         ELSE after.pc = "sleeping" /\ after.sleep = 3600]_vars
    /\ (last.op = "stop" /\ \E loop \in BagToSet(loops) : loop.pc = "pass")
          ~> (loops = EmptyBag)

\* the scheduler was stopped during a pass, and the pass has gone on to its
\* second user
C23_Witness ==
    /\ ~running
    /\ last.op = "scheduler"
    /\ last.event = "resume"
    /\ \E loop \in BagToSet(loops) : loop.pc = "pass" /\ Len(loop.users) = 1

\* C24: a pass that raises leaves the loop alive and asleep for a minute; and
\* after it, unless the scheduler is stopped, the loop eventually begins
\* another pass.
C24_RaiseAbsorbed ==
    /\ [][(last'.op = "scheduler" /\ last'.event = "raise") =>
             /\ BagCardinality(loops') = BagCardinality(loops)
             /\ \E loop \in BagToSet(loops') :
                   loop.pc = "sleeping" /\ loop.sleep = 60]_vars
    /\ \A turn \in {0, 1} :
          (last.op = "scheduler" /\ last.event = "raise" /\ last.turn = turn)
             ~> \/ ~running
                \/ /\ last.op = "scheduler"
                   /\ last.event \in {"begin", "raise"}
                   /\ last.turn # turn

\* a pass has raised, and the loop sleeps a minute
C24_Witness ==
    /\ running
    /\ last.op = "scheduler"
    /\ last.event = "raise"
    /\ \E loop \in BagToSet(loops) : loop.pc = "sleeping" /\ loop.sleep = 60

\* the bucket the rule gives a task, from the hours between now and its due date
BucketByRule(t) ==
    IF t.due_date = None THEN "later"
    ELSE IF Val(t.due_date) - now < 7 * 24 THEN "this_week"
    ELSE IF Val(t.due_date) - now < 14 * 24 THEN "next_week"
    ELSE "later"

\* the ids of a sequence of ids, as a set
IdsOf(ids) ==
    { ids[i] : i \in 1..Len(ids) }

\* C25: in a weekly summary each pending task of the user is in the bucket of
\* its day-delta: this_week below 7 days (the past included), next_week from 7
\* to below 14 days, later from 14 days on or without a due date.
C25_WeeklyBuckets ==
    last.op = "weekly" =>
        \A i \in 1..Len(tasks) :
            (tasks[i].user_id = last.user_id /\ tasks[i].status = PENDING) =>
                /\ tasks[i].id \in IdsOf(last.this_week) <=> BucketByRule(tasks[i]) = "this_week"
                /\ tasks[i].id \in IdsOf(last.next_week) <=> BucketByRule(tasks[i]) = "next_week"
                /\ tasks[i].id \in IdsOf(last.later) <=> BucketByRule(tasks[i]) = "later"

\* a weekly summary a day after the origin holds a task that is past due and
\* one due in 6 days 23 hours this week, one due in 13 days next week, and
\* one due in 14 days later
C25_Witness ==
    /\ last.op = "weekly"
    /\ now = 24
    /\ \E i, j, k \in 1..Len(tasks) :
          /\ tasks[i].due_date \in {Some(12), Some(191)}
          /\ tasks[i].id \in IdsOf(last.this_week)
          /\ tasks[j].due_date = Some(336)
          /\ tasks[j].id \in IdsOf(last.next_week)
          /\ tasks[k].due_date = Some(360)
          /\ tasks[k].id \in IdsOf(last.later)

\* the hours from now to the timestamp under `key` of a raw item that has one
HoursUntil(raw_data, key) ==
    raw_data[key].dateTime - now

\* C26: the priority of a normalized assignment is 3 when it is due less than
\* 24 hours from now, 2 from 24 to less than 48, 1 from 48 to less than 168,
\* and 0 from 168 hours on or without a due date; it is that function of the
\* raw item and of now whenever the normalizer is called.
C26_AssignmentPriority ==
    (last.op = "normalize" /\ last.source = CANVAS) =>
        LET due_at == last.raw_data.due_at
            priority == last.task.priority
        IN  /\ priority \in 0..3
            /\ priority = 3 <=> (due_at # None /\ Val(due_at) - now < 24)
            /\ priority = 2 <=> (due_at # None /\ Val(due_at) - now >= 24
                                              /\ Val(due_at) - now < 48)
            /\ priority = 1 <=> (due_at # None /\ Val(due_at) - now >= 48
                                              /\ Val(due_at) - now < 168)
            /\ last.task.due_date = due_at

\* an assignment due in exactly 24 hours has been normalized
C26_Witness ==
    /\ last.op = "normalize"
    /\ last.source = CANVAS
    /\ last.raw_data.due_at # None
    /\ Val(last.raw_data.due_at) - now = 24
    /\ last.task.priority = 2

\* C27: the priority of a normalized Outlook or Google Calendar event is 1
\* when it starts less than 24 hours from now and 0 otherwise or without a
\* start: 1 for a start in 10 hours, 0 for a start in 40 hours.
C27_MeetingPriority ==
    (last.op = "normalize" /\ last.source \in {OUTLOOK, GOOGLE_CALENDAR}) =>
        LET started == "start" \in DOMAIN last.raw_data
            priority == last.task.priority
        IN  /\ priority \in {0, 1}
            /\ priority = 1 <=> (started /\ HoursUntil(last.raw_data, "start") < 24)
            /\ (started /\ HoursUntil(last.raw_data, "start") = 10) => priority = 1
            /\ (started /\ HoursUntil(last.raw_data, "start") = 40) => priority = 0

\* a Google Calendar event that starts in 40 hours has been normalized
C27_Witness ==
    /\ last.op = "normalize"
    /\ last.source = GOOGLE_CALENDAR
    /\ "start" \in DOMAIN last.raw_data
    /\ HoursUntil(last.raw_data, "start") = 40
    /\ last.task.priority = 0

\* an assignment whose due_at normalize_task cannot parse
Malformed(assignment) ==
    /\ Get(assignment, "due_at", None) # None
    /\ ParseRaises(Val(assignment.due_at))

\* the assignments Canvas answered with hold no malformed one
WellFormed(up) ==
    \A id \in DOMAIN up.assignments :
        \A i \in 1..Len(up.assignments[id].body) : ~Malformed(up.assignments[id].body[i])

\* a fetch_tasks of the Canvas connector whose course list was answered
CanvasFetched ==
    /\ last.op = "fetch_tasks"
    /\ last.source = CANVAS
    /\ ~last.up.courses.raised
    /\ last.up.courses.status_code = 200

\* the tasks of the courses whose assignments were answered, in course order,
\* malformed assignments left out
TasksOfAnswered(user_id, up) ==
    LET courses == up.courses.body
        WellFormedOne(a) == ~Malformed(a)
    IN  Concat([ i \in 1..Len(courses) |->
                   LET response == up.assignments[courses[i].id]
                   IN  IF ~response.raised /\ response.status_code = 200
                       THEN CanvasCourseTasks(user_id, courses[i],
                                              SelectSeq(response.body, WellFormedOne))
                       ELSE <<>> ])

\* C28: when the request for the assignments of one course fails, by an error
\* status or in the transport, the Canvas fetch still returns, and it returns
\* the assignments of the courses whose request succeeded.
C28_SubCallSkipped ==
    (CanvasFetched /\ WellFormed(last.up)) =>
        /\ ~last.outcome.raised
        /\ last.outcome.tasks = TasksOfAnswered(last.user_id, last.up)

\* C29: no fetch_tasks of any connector ends in an exception when a request of
\* its fails in the transport.
C29_NoExceptionEscapes ==
    (last.op = "fetch_tasks" /\ (last.source = CANVAS => WellFormed(last.up))) =>
        ~last.outcome.raised

\* C30: when every request of a Canvas fetch is answered and an assignment is
\* malformed, the fetch still returns every other assignment for the merge.
C30_MalformedSkipped ==
    (/\ CanvasFetched
     /\ \A id \in DOMAIN last.up.assignments :
           /\ ~last.up.assignments[id].raised
           /\ last.up.assignments[id].status_code = 200) =>
        /\ ~last.outcome.raised
        /\ last.outcome.tasks = TasksOfAnswered(last.user_id, last.up)

\* C31: a sync whose merge fails part-way leaves the tasks table as it was
\* before the sync: none of the inserts and updates of its batch is kept.
C31_CommitOncePerBatch ==
    [][(last'.op = "sync_failed" /\ syncs' # syncs) => tasks' = tasks]_vars

\* the sources a credential can be for
CredentialSources ==
    { SyncSources[i] : i \in DOMAIN SyncSources }

\* the credentials of one user and source
Credentials(user_id, source_type) ==
    { t \in oauth_tokens : t.user_id = user_id /\ t.source_type = source_type }

\* C32: there is at most one credential per user and source, whatever upserts
\* came before; an upsert changes the credentials of its pair only, and leaves
\* the pair with one credential that holds the access token, refresh token and
\* expiry it was called with.
C32_OneCredential ==
    /\ [](\A user_id \in Users, source_type \in CredentialSources :
            Cardinality(Credentials(user_id, source_type)) <= 1)
    /\ [][/\ oauth_tokens' # oauth_tokens =>
              \E user_id \in Users, source_type \in CredentialSources :
                 \E t \in oauth_tokens' :
                    /\ t.user_id = user_id /\ t.source_type = source_type
                    /\ oauth_tokens' =
                          (oauth_tokens \ Credentials(user_id, source_type)) \cup {t}
           /\ last'.op = "oauth_callback" /\ syncs' # syncs =>
              oauth_tokens' =
                 (oauth_tokens \ Credentials(last'.user_id, last'.source_type))
                 \cup { [user_id |-> last'.user_id,
                         source_type |-> last'.source_type,
                         access_token |-> last'.token_data.access_token,
                         refresh_token |-> last'.token_data.refresh_token,
                         expires_at |-> last'.token_data.expires_at] }]_vars

\* a callback has replaced the credential the user had for that source by one
\* with another access token
C32_Witness ==
    /\ last.op = "oauth_callback"
    /\ last.existing # {None}
    /\ \E t \in last.existing : Val(t).access_token # last.token_data.access_token
    /\ Cardinality(Credentials(last.user_id, last.source_type)) = 1

\* the rows of a user that are not complete
OpenRows(user_id) ==
    { i \in 1..Len(tasks) : tasks[i].user_id = user_id /\ tasks[i].status # COMPLETE }

\* C33: a summary leaves out the rows of the user that are complete when it is
\* made: none of them is in the ordered list, the pending, overdue and
\* high-priority counts count rows that are not complete only, and the total
\* counts every row of the user, the complete ones too.
C33_CompleteExcluded ==
    (last.op = "summarize" /\ ~last.raised) =>
        /\ \A k \in 1..Len(last.tasks) : RowById(last.tasks[k]).status # COMPLETE
        /\ \A k \in 1..Len(last.tasks) : RowById(last.tasks[k]).user_id = last.user_id
        /\ last.pending_tasks <= Cardinality(OpenRows(last.user_id))
        /\ last.overdue_tasks <= Cardinality(OpenRows(last.user_id))
        /\ last.high_priority_tasks <= Cardinality(OpenRows(last.user_id))
        /\ last.total_tasks =
              Cardinality({ i \in 1..Len(tasks) : tasks[i].user_id = last.user_id })

\* a summary made after the user's only rows due within 48 hours were marked
\* complete: it counts them in the total, lists the row that is still open,
\* and counts no high-priority row
C33_Witness ==
    /\ last.op = "summarize"
    /\ ~last.raised
    /\ \E i \in 1..Len(tasks) :
          /\ tasks[i].user_id = last.user_id
          /\ tasks[i].status = COMPLETE
          /\ tasks[i].due_date # None
          /\ now <= Val(tasks[i].due_date) /\ Val(tasks[i].due_date) <= now + 48
    /\ last.total_tasks > Cardinality(OpenRows(last.user_id))
    /\ Len(last.tasks) = Cardinality(OpenRows(last.user_id))
    /\ Len(last.tasks) >= 1
    /\ last.high_priority_tasks = 0

\* the rows of a user with a status
RowsWithStatus(user_id, status) ==
    { i \in 1..Len(tasks) : tasks[i].user_id = user_id /\ tasks[i].status = status }

\* C34: the overdue count of a summary is the number of rows of the user whose
\* status is overdue when the summary returns, on the call that makes a row
\* overdue and on the calls after it.
C34_OverdueCount ==
    (last.op = "summarize" /\ ~last.raised) =>
        last.overdue_tasks = Cardinality(RowsWithStatus(last.user_id, OVERDUE))

\* C35: the pending count and the counts by source of a summary cover the rows
\* that are pending when the summary returns and no others, so that no row is
\* counted as pending and as overdue, and the pending and overdue counts add
\* up to the number of rows of the user that are not complete.
C35_PendingDisjointFromOverdue ==
    (last.op = "summarize" /\ ~last.raised) =>
        /\ last.pending_tasks = Cardinality(RowsWithStatus(last.user_id, PENDING))
        /\ \A src \in DOMAIN last.tasks_by_source :
              last.tasks_by_source[src] =
                 Cardinality({ i \in RowsWithStatus(last.user_id, PENDING) :
                                 tasks[i].source_type = src })
        /\ last.pending_tasks + last.overdue_tasks =
              Cardinality(OpenRows(last.user_id))

\* C36: a plain-language summary is the all-caught-up sentence only when the
\* user has no row that is pending or overdue, whatever summaries came before.
C36_CaughtUpMeansNothingOpen ==
    (last.op = "plain" /\ ~last.raised /\ last.summary = AllCaughtUp) =>
        /\ RowsWithStatus(last.user_id, PENDING) = {}
        /\ RowsWithStatus(last.user_id, OVERDUE) = {}

\* the rows of the users other than one, in table order
RowsOfOthers(rows, user_id) ==
    LET NotTheirs(row) == row.user_id # user_id
    IN  SelectSeq(rows, NotTheirs)

\* C37: a step that changes the tasks table is the operation of one user and
\* leaves the rows of every other user as they were, whether it is a sync, a
\* summary, a status update, an edit or a delete; and a read, status update,
\* edit or delete of a task by a user who does not own it answers 404 and
\* changes nothing.
C37_OtherUsersUntouched ==
    [][/\ tasks' # tasks =>
          /\ "user_id" \in DOMAIN last'
          /\ RowsOfOthers(tasks', last'.user_id) = RowsOfOthers(tasks, last'.user_id)
       /\ (/\ syncs' = syncs
           /\ last'.op \in {"get_task", "update_task_status", "update_task",
                             "delete_task"}
           /\ \E i \in 1..Len(tasks) :
                 tasks[i].id = last'.task_id /\ tasks[i].user_id # last'.user_id)
          => (last'.status_code = 404 /\ tasks' = tasks)]_vars

\* user 2 has asked to delete a task of user 1 and was answered 404, while
\* both users have rows put there by their own syncs
C37_Witness ==
    /\ last.op = "delete_task"
    /\ last.user_id = 2
    /\ last.status_code = 404
    /\ \E i, j \in 1..Len(tasks) :
          /\ tasks[i].id = last.task_id
          /\ tasks[i].user_id = 1
          /\ tasks[j].user_id = 2

PendingIds(user_id) ==
    { tasks[i].id : i \in RowsWithStatus(user_id, PENDING) }

\* C40: the three buckets of a weekly summary partition the pending tasks of
\* the user: no bucket repeats a task, no task is in two buckets, together they
\* hold the pending tasks of the user and nothing else (no overdue task, no
\* complete one, none of another user); and the call leaves the tasks table
\* as it was.
C40_WeeklyPartition ==
    /\ [](last.op = "weekly" =>
            /\ \A b \in {last.this_week, last.next_week, last.later} :
                  \A k, m \in 1..Len(b) : b[k] = b[m] => k = m
            /\ IdsOf(last.this_week) \cap IdsOf(last.next_week) = {}
            /\ IdsOf(last.this_week) \cap IdsOf(last.later) = {}
            /\ IdsOf(last.next_week) \cap IdsOf(last.later) = {}
            /\ IdsOf(last.this_week) \cup IdsOf(last.next_week) \cup IdsOf(last.later)
                  = PendingIds(last.user_id))
    /\ [][last'.op = "weekly" => tasks' = tasks]_vars

\* a weekly summary of a user who has a complete task, an overdue task and
\* a pending task, which is the one task in the buckets
C40_Witness ==
    /\ last.op = "weekly"
    /\ RowsWithStatus(last.user_id, COMPLETE) # {}
    /\ RowsWithStatus(last.user_id, OVERDUE) # {}
    /\ Len(last.this_week) + Len(last.next_week) + Len(last.later) = 1

====
